---------------------------- MODULE Spec2Model ----------------------------
(***************************************************************************)
(* Rose Glass coherence assessment: the athletic scorer                    *)
(* (src/src/athletic_coherence/core.py), the injury pattern analyzer       *)
(* (src/src/athletic_coherence/analyzers/__init__.py), the two dashboards  *)
(* (athletic_coherence/core.py, team_coherence/core.py) and the cultural   *)
(* lens engine (src/src/team_coherence/lenses/__init__.py).                *)
(*                                                                         *)
(* Numbers.  Python floats are modelled in fixed point: a value on a 0-1   *)
(* scale is an integer number of thousandths (0.5 is 500), a value on the  *)
(* 0-10 "points" scale (load_score, readiness) is an integer number of     *)
(* tenths of a point (8.2 is 82), and an average of points is an integer   *)
(* number of thousandths of a point (2.0 is 2000).  Every division rounds  *)
(* down.  statistics.stdev is exact on its arguments, so the lens          *)
(* deviation is kept exact too: it is represented by its square, the       *)
(* sample variance, as a fraction <<numerator, denominator>>.              *)
(***************************************************************************)
EXTENDS Integers, Sequences, FiniteSets, TLC

VARIABLES
    now,              \* the clock datetime.now() reads
    org_snapshots,    \* OrganizationDashboard.snapshots
    org_flags,        \* OrganizationDashboard.flags: id -> SystemicFlag
    org_data,         \* OrganizationDashboard.injury_records/training_data/recovery_data
    unit_snapshots,   \* UnitDashboard.snapshots
    unit_flags,       \* UnitDashboard.flags: id -> Flag
    ret,              \* what the latest dashboard query returned
    calc_args,        \* the record lists handed to the scorer / the analyzer
    calc_result,      \* what PhysicalCoherenceScore.calculate returned
    analyzer_result,  \* what InjuryPatternAnalyzer.analyze returned
    self_weights,     \* PhysicalCoherenceScore.weights of the scorer called
    self_patterns,    \* InjuryPatternAnalyzer.patterns of the analyzer called
    pattern,          \* the pattern tuple (psi, rho, q, f, tau) of the lens caller
    library,          \* LensLibrary.lenses: name -> LensParameters
    lenses,           \* the caller's lens list (NoneValue: the default argument)
    prev_analysis,    \* what the call before the latest calculate_deviation returned
    analysis,         \* what the latest calculate_deviation returned
    text,             \* the text handed to the text analyzer, word by word
    extracted,        \* what BaseAnalyzer._extract_pattern_regex returned
    cisd_result       \* what CISDAnalyzer.analyze returned

vars == <<now, org_snapshots, org_flags, org_data, unit_snapshots, unit_flags, ret,
          calc_args, calc_result, analyzer_result, self_weights, self_patterns,
          pattern, library, lenses, prev_analysis, analysis,
          text, extracted, cisd_result>>

dashVars == <<now, org_snapshots, org_flags, org_data, unit_snapshots, unit_flags, ret>>
calcVars == <<calc_args, calc_result, analyzer_result, self_weights, self_patterns>>
lensVars == <<pattern, library, lenses, prev_analysis, analysis>>
textVars == <<text, extracted, cisd_result>>

-----------------------------------------------------------------------------
(* Bounds of the model                                                     *)

\* most records of one (position group, injury type) cell in a scorer input
MaxPerCell == 3
\* most recovery records in a scorer input
MaxRecovery == 2
\* the clock value after which no further run() is explored
MaxTime == 3
MaxLensList == 3
MaxRepeat == 11

-----------------------------------------------------------------------------
(* Generic helpers                                                         *)

Min(a, b) == IF a <= b THEN a ELSE b
Max(a, b) == IF a >= b THEN a ELSE b
Abs(a) == IF a >= 0 THEN a ELSE 0 - a

\* one on the 0-1 scale, in thousandths
Unit == 10 * 10 * 10

NoneValue == [kind |-> "none"]

RECURSIVE SumSeq(_)
SumSeq(s) == IF s = <<>> THEN 0 ELSE Head(s) + SumSeq(Tail(s))

RECURSIVE MapField(_, _)
\* [r.f for r in s]
MapField(s, f) == IF s = <<>> THEN <<>> ELSE <<Head(s)[f]>> \o MapField(Tail(s), f)

RECURSIVE Rep(_, _)
\* the list holding x n times
Rep(x, n) == IF n = 0 THEN <<>> ELSE <<x>> \o Rep(x, n - 1)

RECURSIVE Flatten(_)
Flatten(ss) == IF ss = <<>> THEN <<>> ELSE Head(ss) \o Flatten(Tail(ss))

Range(s) == {s[i] : i \in DOMAIN s}

RECURSIVE FirstOccurrences(_, _)
\* the distinct values of s in the order of their first occurrence
\* (the key order of a dict filled while iterating s)
FirstOccurrences(s, seen) ==
    IF s = <<>> THEN <<>>
    ELSE IF Head(s) \in seen THEN FirstOccurrences(Tail(s), seen)
    ELSE <<Head(s)>> \o FirstOccurrences(Tail(s), seen \cup {Head(s)})

\* floor of the square root, saturating at Unit (callers clamp at 1.0)
IsqrtSat(n) ==
    CHOOSE r \in 0..Unit : r * r <= n /\ (r = Unit \/ (r + 1) * (r + 1) > n)

\* numerator of the sample variance of xs over Len(xs) * (Len(xs) - 1)
VarianceNum(xs) ==
    Len(xs) * SumSeq([i \in DOMAIN xs |-> xs[i] * xs[i]]) - SumSeq(xs) * SumSeq(xs)

-----------------------------------------------------------------------------
(* athletic_coherence/core.py: enums and PhysicalCoherenceScore            *)

\* FlagSeverity, in the order OrganizationDashboard.get_systemic_flags ranks it
severity_order == <<"info", "watch", "elevated", "critical">>

\* str.upper() on the position group names the model uses
upper(s) ==
    CASE s = "wr" -> "WR"
      [] s = "db" -> "DB"
      [] s = "secondary" -> "SECONDARY"
      [] s = "receivers" -> "RECEIVERS"
      [] s = "unknown" -> "UNKNOWN"
      [] OTHER -> s

\* PhysicalCoherenceScore.weights, in thousandths
\* mutant of weights: the strain weight raised without lowering another
weights_Unnormalised == [psi |-> 200, rho |-> 150, q |-> 350, f |-> 150, tau |-> 250]

weights == [psi |-> 200, rho |-> 150, q |-> 250, f |-> 150, tau |-> 250]

DimensionReading(dim, value, confidence, interp, trend) ==
    [dimension |-> dim, value |-> value, confidence |-> confidence,
     athletic_interpretation |-> interp, trend |-> trend]

\* the flag threshold on the average readiness gap, in thousandths of a point
DisclosureGapThreshold == 2000
\* fewest soft-tissue injuries of a position group that are flagged
SoftTissueMinCount == 3

_calculate_load_coherence(training_data) ==
    IF training_data = <<>>
    THEN DimensionReading("psi", 500, 0, "Insufficient training data", "unknown")
    ELSE LET loads == MapField(training_data, "load_score")
             n == Len(loads)
             \* statistics.stdev(loads) / 10; loads are tenths of a point
             variance == IF n < 2 THEN 500
                         ELSE IsqrtSat((100 * VarianceNum(loads)) \div (n * (n - 1)))
             coherence == Unit - Min(variance, Unit)
             interp == IF coherence < 500
                       THEN "Training program shows high variance - inconsistent loading"
                       ELSE IF coherence < 700
                       THEN "Moderate training coherence - some periodization issues"
                       ELSE "Training program is coherent and consistent"
         IN DimensionReading("psi", coherence, Min((n * Unit) \div 100, Unit),
                             interp, "stable")

_calculate_history_integration(injuries) ==
    IF injuries = <<>>
    THEN DimensionReading("rho", 500, 0, "Insufficient injury history", "unknown")
    ELSE LET recurrences == Len(SelectSeq(injuries, LAMBDA i : i.is_recurrence))
             recurrence_rate == (recurrences * Unit) \div Len(injuries)
             integration == Unit - recurrence_rate
             interp == IF integration < 500
                       THEN "High re-injury rate suggests protocols not learning from history"
                       ELSE IF integration < 700
                       THEN "Moderate recurrence - some patterns repeating"
                       ELSE "Low recurrence rate - good integration of injury history"
         IN DimensionReading("rho", integration,
                             Min((Len(injuries) * Unit) \div 50, Unit), interp, "stable")

_calculate_strain_accumulation(training, injuries) ==
    IF training = <<>>
    THEN DimensionReading("q", 500, 0, "Insufficient data for strain analysis", "unknown")
    ELSE LET avg_intensity == SumSeq(MapField(training, "intensity")) \div Len(training)
             soft_tissue == Len(SelectSeq(injuries,
                                LAMBDA i : i.injury_type = "soft_tissue"))
             soft_tissue_rate == (soft_tissue * Unit) \div Max(Len(injuries), 1)
             strain == (avg_intensity + soft_tissue_rate) \div 2
             interp == IF strain > 700
                       THEN "Critical strain accumulation - tissues under maximum load"
                       ELSE IF strain > 500
                       THEN "Elevated strain - approaching sustainable limits"
                       ELSE "Strain levels within sustainable range"
         IN DimensionReading("q", strain, 700, interp, "stable")

\* [abs(r.reported_readiness - r.objective_readiness) for r in recovery], tenths
Gaps(recovery) ==
    [k \in DOMAIN recovery |->
        Abs(recovery[k].reported_readiness - recovery[k].objective_readiness)]

\* sum(gaps) / len(gaps), in thousandths of a point
AvgGap(recovery) == (SumSeq(Gaps(recovery)) * 100) \div Len(recovery)

_calculate_team_protection(recovery) ==
    IF recovery = <<>>
    THEN DimensionReading("f", 500, 0, "Insufficient recovery data", "unknown")
    ELSE LET avg_gap == AvgGap(recovery)
             protection == Unit - (avg_gap \div 10)
             interp == IF protection < 500
                       THEN "Large gap between reported and objective readiness"
                       ELSE IF protection < 700
                       THEN "Moderate reporting gap - some performance of readiness"
                       ELSE "Athletes reporting honestly - safe disclosure environment"
         IN DimensionReading("f", protection,
                             Min((Len(recovery) * Unit) \div 100, Unit), interp, "stable")

_calculate_recovery_depth(recovery) ==
    IF recovery = <<>>
    THEN DimensionReading("tau", 500, 0, "Insufficient recovery data", "unknown")
    ELSE LET avg_readiness ==
                 (SumSeq(MapField(recovery, "objective_readiness")) * 100) \div Len(recovery)
             depth == avg_readiness \div 10
             interp == IF depth < 400
                       THEN "Shallow recovery patterns - quick RTPs without full healing"
                       ELSE IF depth < 600
                       THEN "Moderate recovery depth - some rushing evident"
                       ELSE "Adequate recovery depth - allowing time for healing"
         IN DimensionReading("tau", depth,
                             Min((Len(recovery) * Unit) \div 100, Unit), interp, "stable")

\* the SystemicFlag a position group's soft-tissue cluster raises
SoftTissueFlag(group, soft_tissue, t) ==
    [id |-> <<"SYS-SOFT", upper(group)>>,
     pattern_type |-> "positional",
     severity |-> "elevated",
     affected_positions |-> <<group>>,
     affected_players_count |-> Cardinality(Range(MapField(soft_tissue, "player_id"))),
     seasons_observed |-> Range(MapField(soft_tissue, "year")),
     data_points |-> Len(soft_tissue),
     confidence |-> 800,
     correlation_strength |-> 700,
     first_detected |-> t,
     last_updated |-> t]

\* mutant of DisclosureFlag: the severity escalates with the clock, so a
\* repeated call on the same records reports a different severity
DisclosureFlag_Escalating(recovery, t) ==
    [id |-> <<"SYS-DISCLOSURE">>,
     pattern_type |-> "systemic",
     severity |-> IF t = 0 THEN "elevated" ELSE "critical",
     affected_positions |-> <<"All">>,
     affected_players_count |-> Cardinality(Range(MapField(recovery, "player_id"))),
     seasons_observed |-> {},
     data_points |-> Len(recovery),
     confidence |-> 850,
     correlation_strength |-> 800,
     first_detected |-> t,
     last_updated |-> t]

\* the SystemicFlag the readiness gap raises
DisclosureFlag(recovery, t) ==
    [id |-> <<"SYS-DISCLOSURE">>,
     pattern_type |-> "systemic",
     severity |-> "critical",
     affected_positions |-> <<"All">>,
     affected_players_count |-> Cardinality(Range(MapField(recovery, "player_id"))),
     seasons_observed |-> {},
     data_points |-> Len(recovery),
     confidence |-> 850,
     correlation_strength |-> 800,
     first_detected |-> t,
     last_updated |-> t]

\* mutant of SoftTissueClustered: a group is flagged at one half already
SoftTissueClustered_HalfOrMore(soft_tissue, group_injuries) ==
    /\ Len(soft_tissue) >= SoftTissueMinCount
    /\ 2 * Len(soft_tissue) >= Len(group_injuries)

\* the soft-tissue test of one position group: at least 3, and more than half
SoftTissueClustered(soft_tissue, group_injuries) ==
    /\ Len(soft_tissue) >= SoftTissueMinCount
    /\ 2 * Len(soft_tissue) > Len(group_injuries)

\* mutant of DisclosureGapExceeded: a gap of exactly 2.0 is flagged too
DisclosureGapExceeded_AtLeast(avg_gap) == avg_gap >= DisclosureGapThreshold

\* the disclosure test on the average gap
DisclosureGapExceeded(avg_gap) == avg_gap > DisclosureGapThreshold

_detect_systemic_flags(injuries, training, recovery, t) ==
    LET groups == FirstOccurrences(MapField(injuries, "position_group"), {})
        group_injuries(g) == SelectSeq(injuries, LAMBDA i : i.position_group = g)
        soft(g) == SelectSeq(group_injuries(g), LAMBDA i : i.injury_type = "soft_tissue")
        positional ==
            Flatten([k \in DOMAIN groups |->
                IF SoftTissueClustered(soft(groups[k]), group_injuries(groups[k]))
                THEN <<SoftTissueFlag(groups[k], soft(groups[k]), t)>>
                ELSE <<>>])
        disclosure ==
            IF recovery # <<>> /\ DisclosureGapExceeded(AvgGap(recovery))
            THEN <<DisclosureFlag(recovery, t)>>
            ELSE <<>>
    IN positional \o disclosure

\* mutant of AggregateScore: q enters as it is read
AggregateScore_NoInvert(psi, rho, q, f, tau) ==
    (psi.value * weights.psi + rho.value * weights.rho
     + q.value * weights.q
     + f.value * weights.f + tau.value * weights.tau) \div Unit

\* the aggregate score; q enters inverted
AggregateScore(psi, rho, q, f, tau) ==
    (psi.value * weights.psi + rho.value * weights.rho
     + (Unit - q.value) * weights.q
     + f.value * weights.f + tau.value * weights.tau) \div Unit

calculate(injury_history, training_data, recovery_data, t) ==
    LET psi == _calculate_load_coherence(training_data)
        rho == _calculate_history_integration(injury_history)
        q == _calculate_strain_accumulation(training_data, injury_history)
        f == _calculate_team_protection(recovery_data)
        tau == _calculate_recovery_depth(recovery_data)
        score == AggregateScore(psi, rho, q, f, tau)
    IN [kind |-> "snapshot",
        timestamp |-> t,
        seasons_analyzed |-> Range(MapField(injury_history, "year")),
        psi_load_coherence |-> psi,
        rho_history_integration |-> rho,
        q_strain_accumulation |-> q,
        f_team_protection |-> f,
        tau_recovery_depth |-> tau,
        physical_coherence_score |-> score,
        confidence_interval |-> <<score - 100, score + 100>>,
        data_sources |-> [injury_records |-> Len(injury_history),
                          training_sessions |-> Len(training_data),
                          recovery_metrics |-> Len(recovery_data)],
        systemic_flags |-> _detect_systemic_flags(injury_history, training_data,
                                                  recovery_data, t),
        league_average |-> 550,
        year_over_year_trend |-> "declining"]


-----------------------------------------------------------------------------
(* Inputs of the scorer                                                    *)

InjuryRecord(player, group, type, recurrence, year) ==
    [player_id |-> player, position_group |-> group, injury_type |-> type,
     is_recurrence |-> recurrence, year |-> year]

TrainingLoad(load_score, intensity) ==
    [load_score |-> load_score, intensity |-> intensity]

RecoveryMetric(player, reported, objective) ==
    [player_id |-> player, reported_readiness |-> reported,
     objective_readiness |-> objective]

\* position groups of the scorer inputs; two of them differ only in letter case
ScorerGroups == <<"wr", "WR">>

\* the injuries of one position group: soft soft-tissue ones, other structural ones
GroupInjuries(group, soft, other) ==
    Rep(InjuryRecord("p1", group, "soft_tissue", FALSE, "2024"), soft)
    \o Rep(InjuryRecord("p2", group, "structural", TRUE, "2025"), other)

\* injury lists: every count of soft-tissue and other injuries per position group
InjuryInputs ==
    {GroupInjuries(ScorerGroups[1], c[1], c[2]) \o GroupInjuries(ScorerGroups[2], c[3], c[4]) :
        c \in [1..4 -> 0..MaxPerCell]}

\* the last list holds a record beyond the documented scales: load_score 12.0
\* of 10, intensity 2.5 of 1
TrainingInputs ==
    {<<>>,
     <<TrainingLoad(75, 850)>>,
     <<TrainingLoad(60, 750), TrainingLoad(85, 820)>>,
     <<TrainingLoad(120, 2500)>>}

\* a gap of 1.0 point (reported above objective) and of 3.0 (reported below)
\* and one record beyond the 0-10 readiness scale (objective 12.0, gap 12.0)
RecoveryRecords ==
    {RecoveryMetric("p1", 70, 60), RecoveryMetric("p2", 60, 90),
     RecoveryMetric("p3", 0, 120)}

RECURSIVE SeqsUpTo(_, _)
\* the sequences over S of length at most n
SeqsUpTo(S, n) ==
    IF n = 0 THEN {<<>>}
    ELSE LET shorter == SeqsUpTo(S, n - 1)
         IN shorter \cup {Append(s, x) : s \in shorter, x \in S}

RecoveryInputs == SeqsUpTo(RecoveryRecords, MaxRecovery)

-----------------------------------------------------------------------------
(* Initial values of the three groups of variables                        *)

DashInit ==
    /\ now = 0
    /\ org_snapshots = <<>>
    /\ org_flags = <<>>
    /\ org_data = [injury_records |-> <<>>, training_data |-> <<>>,
                   recovery_data |-> <<>>]
    /\ unit_snapshots = <<>>
    /\ unit_flags = <<>>
    /\ ret = [op |-> "none"]

CalcIdle ==
    /\ calc_args = [injuries |-> <<>>, training |-> <<>>, recovery |-> <<>>]
    /\ calc_result = NoneValue
    /\ analyzer_result = NoneValue
    /\ self_weights = weights
    /\ self_patterns = <<>>

LensIdle ==
    /\ pattern = [psi |-> 500, rho |-> 500, q |-> 500, f |-> 500, tau |-> 500]
    /\ library = <<>>
    /\ lenses = [kind |-> "none"]
    /\ prev_analysis = NoneValue
    /\ analysis = NoneValue

TextIdle ==
    /\ text = <<>>
    /\ extracted = NoneValue
    /\ cisd_result = NoneValue

-----------------------------------------------------------------------------
(* SpecCalc: PhysicalCoherenceScore.calculate on every input               *)

CalcInit ==
    /\ DashInit
    /\ TextIdle
    /\ LensIdle
    /\ calc_args \in [injuries : InjuryInputs, training : TrainingInputs,
                      recovery : RecoveryInputs]
    /\ calc_result = NoneValue
    /\ analyzer_result = NoneValue
    /\ self_weights = weights
    /\ self_patterns = <<>>

Calculate ==
    /\ calc_result' = calculate(calc_args.injuries, calc_args.training,
                                calc_args.recovery, now)
    /\ UNCHANGED <<calc_args, analyzer_result, self_weights, self_patterns,
                   dashVars, lensVars, textVars>>

CalcNext == Calculate

SpecCalc == CalcInit /\ [][CalcNext]_vars

-----------------------------------------------------------------------------
(* Claims on the scorer                                                    *)

\* the flags of a list that carry the given id
FlagsWithId(flags, id) == {k \in DOMAIN flags : flags[k].id = id}

\* the number of records of a list that satisfy Test
CountWhere(s, Test(_)) == Cardinality({k \in DOMAIN s : Test(s[k])})

\* C1: calculate emits the flag SYS-DISCLOSURE, which is CRITICAL and SYSTEMIC,
\* exactly when there are recovery records and the mean of
\* |reported_readiness - objective_readiness| over them is strictly above 2.0
\* (sum of the gaps, in tenths, above 20 per record); the injury records, the
\* training records and the score play no part.
C1_DisclosureFlagIffGap ==
    calc_result.kind = "snapshot" =>
        LET flags == calc_result.systemic_flags
            hits == FlagsWithId(flags, <<"SYS-DISCLOSURE">>)
            rec == calc_args.recovery
        IN /\ (hits # {}) <=>
                  (rec # <<>> /\ SumSeq(Gaps(rec)) > 20 * Len(rec))
           /\ Cardinality(hits) <= 1
           /\ \A k \in hits : /\ flags[k].severity = "critical"
                              /\ flags[k].pattern_type = "systemic"

\* C1 witness: the flag is emitted on a mean gap above 2.0 although there are
\* injury and training records and a score above one half
C1_Witness ==
    /\ calc_result.kind = "snapshot"
    /\ FlagsWithId(calc_result.systemic_flags, <<"SYS-DISCLOSURE">>) # {}
    /\ calc_args.injuries # <<>>
    /\ calc_args.training # <<>>
    /\ calc_result.physical_coherence_score > 500

\* C2: for every position group of the injury records, the flag SYS-SOFT-<GROUP>
\* of that group (POSITIONAL, ELEVATED) is emitted exactly when the group has at
\* least 3 soft_tissue injuries and they are strictly more than half of the
\* group's injuries.
C2_SoftTissueFlagIffCluster ==
    calc_result.kind = "snapshot" =>
        LET flags == calc_result.systemic_flags
            inj == calc_args.injuries
        IN \A g \in Range(MapField(inj, "position_group")) :
            LET total == CountWhere(inj, LAMBDA i : i.position_group = g)
                soft == CountWhere(inj, LAMBDA i : i.position_group = g
                                                  /\ i.injury_type = "soft_tissue")
                hits == {k \in FlagsWithId(flags, <<"SYS-SOFT", upper(g)>>) :
                            flags[k].affected_positions = <<g>>}
            IN /\ (hits # {}) <=> (soft >= 3 /\ 2 * soft > total)
               /\ Cardinality(hits) <= 1
               /\ \A k \in hits : /\ flags[k].severity = "elevated"
                                  /\ flags[k].pattern_type = "positional"

\* C2 witness: one group is flagged while another, with 3 soft-tissue injuries
\* that are exactly half of its injuries, is not
C2_Witness ==
    /\ calc_result.kind = "snapshot"
    /\ \E k \in DOMAIN calc_result.systemic_flags :
           calc_result.systemic_flags[k].pattern_type = "positional"
    /\ \E g \in Range(MapField(calc_args.injuries, "position_group")) :
        /\ CountWhere(calc_args.injuries,
                      LAMBDA i : i.position_group = g /\ i.injury_type = "soft_tissue") = 3
        /\ CountWhere(calc_args.injuries, LAMBDA i : i.position_group = g) = 6
        /\ \A k \in DOMAIN calc_result.systemic_flags :
               calc_result.systemic_flags[k].affected_positions # <<g>>


-----------------------------------------------------------------------------
(* athletic_coherence/analyzers/__init__.py: InjuryPatternAnalyzer         *)

\* dict.get(field, default) on a record that may lack the field
Get(rec, field, default) == IF field \in DOMAIN rec THEN rec[field] ELSE default

\* InjuryPatternAnalyzer.LEAGUE_AVERAGES.get(pos, 0.6), in thousandths
LEAGUE_AVERAGES(pos) ==
    CASE pos = "defensive_line" -> 800
      [] pos = "secondary" -> 700
      [] pos = "linebackers" -> 600
      [] pos = "offensive_line" -> 500
      [] pos = "receivers" -> 600
      [] pos = "running_backs" -> 900
      [] pos = "quarterbacks" -> 400
      [] OTHER -> 600

\* fewest soft-tissue records (all positions together) before clusters are sought
AnalyzerSoftTissueFloor == 5
\* fewest soft-tissue records of one position that make a pattern
AnalyzerClusterMin == 3
\* fewest soft-tissue records of one position that make the pattern systemic
AnalyzerSystemicMin == 5
\* a season's record count must exceed this for the multi-season pattern
SeasonCountFloor == 10

_group_by_position(injuries) ==
    LET keys == FirstOccurrences(
                    [k \in DOMAIN injuries |-> Get(injuries[k], "position_group", "unknown")],
                    {})
    IN [k \in DOMAIN keys |->
           [key |-> keys[k],
            value |-> SelectSeq(injuries,
                         LAMBDA i : Get(i, "position_group", "unknown") = keys[k])]]

_group_by_type(injuries, types) ==
    [k \in DOMAIN types |->
        [key |-> types[k],
         value |-> Len(SelectSeq(injuries,
                       LAMBDA i : Get(i, "injury_type", "unknown") = types[k]))]]

\* mutant of _calculate_position_rates: without a season the rate is 0
_calculate_position_rates_ZeroWithoutSeason(by_position, num_seasons) ==
    [k \in DOMAIN by_position |->
        [key |-> by_position[k].key,
         value |-> IF num_seasons = 0 THEN 0
                   ELSE (Len(by_position[k].value) * Unit) \div num_seasons]]

_calculate_position_rates(by_position, num_seasons) ==
    [k \in DOMAIN by_position |->
        [key |-> by_position[k].key,
         value |-> (Len(by_position[k].value) * Unit) \div Max(num_seasons, 1)]]

_compare_to_league(rates) ==
    [k \in DOMAIN rates |->
        [key |-> rates[k].key,
         value |-> IF LEAGUE_AVERAGES(rates[k].key) > 0
                   THEN (rates[k].value * Unit) \div LEAGUE_AVERAGES(rates[k].key)
                   ELSE Unit]]

\* whether a position's soft-tissue cluster is marked systemic
ClusterIsSystemic(pos_injuries) == Len(pos_injuries) >= AnalyzerSystemicMin

SoftTissuePattern(pos, pos_injuries) ==
    [pattern_id |-> <<"SOFT", upper(pos)>>,
     injury_type |-> "soft_tissue",
     affected_positions |-> <<pos>>,
     occurrence_count |-> Len(pos_injuries),
     seasons |-> {Get(pos_injuries[k], "season", "") : k \in DOMAIN pos_injuries},
     correlation_strength |-> 750,
     is_systemic |-> ClusterIsSystemic(pos_injuries)]

RepeatPattern(by_season, counts) ==
    [pattern_id |-> <<"REPEAT-MULTI">>,
     injury_type |-> "all",
     affected_positions |-> <<"all">>,
     occurrence_count |-> SumSeq(counts),
     seasons |-> Range(by_season),
     correlation_strength |-> 800,
     is_systemic |-> TRUE]

\* mutant of HighInEverySeason: one season above the floor is enough
HighInEverySeason_Any(counts) == \E k \in DOMAIN counts : counts[k] > SeasonCountFloor

\* all(c > 10 for c in counts)
HighInEverySeason(counts) == \A k \in DOMAIN counts : counts[k] > SeasonCountFloor

_detect_patterns(injuries, seasons) ==
    LET soft_tissue == SelectSeq(injuries,
                           LAMBDA i : Get(i, "injury_type", "none") = "soft_tissue")
        positions == FirstOccurrences(
                         [k \in DOMAIN soft_tissue |->
                             Get(soft_tissue[k], "position_group", "unknown")], {})
        by_pos(pos) == SelectSeq(soft_tissue,
                           LAMBDA i : Get(i, "position_group", "unknown") = pos)
        clusters ==
            IF Len(soft_tissue) >= AnalyzerSoftTissueFloor
            THEN Flatten([k \in DOMAIN positions |->
                     IF Len(by_pos(positions[k])) >= AnalyzerClusterMin
                     THEN <<SoftTissuePattern(positions[k], by_pos(positions[k]))>>
                     ELSE <<>>])
            ELSE <<>>
        by_season == FirstOccurrences(
                         [k \in DOMAIN injuries |-> Get(injuries[k], "season", "unknown")],
                         {})
        counts == [k \in DOMAIN by_season |->
                      Len(SelectSeq(injuries,
                              LAMBDA i : Get(i, "season", "unknown") = by_season[k]))]
        repeat ==
            IF Len(by_season) >= 2 /\ HighInEverySeason(counts)
            THEN <<RepeatPattern(by_season, counts)>>
            ELSE <<>>
    IN clusters \o repeat

\* injury_types defaults to the three types the analyzer counts
DefaultInjuryTypes == <<"soft_tissue", "structural", "chronic">>

analyze(seasons, injury_data) ==
    LET by_position == _group_by_position(injury_data)
        by_type == _group_by_type(injury_data, DefaultInjuryTypes)
        position_rates == _calculate_position_rates(by_position, Len(seasons))
        patterns == _detect_patterns(injury_data, seasons)
        vs_league == _compare_to_league(position_rates)
    IN [kind |-> "analysis",
        seasons_analyzed |-> seasons,
        total_injuries |-> Len(injury_data),
        by_position |-> by_position,
        by_type |-> by_type,
        position_rates |-> position_rates,
        vs_league_average |-> vs_league,
        patterns |-> patterns,
        systemic_flags |-> SelectSeq(patterns, LAMBDA p : p.is_systemic)]

-----------------------------------------------------------------------------
(* SpecAnalyze: InjuryPatternAnalyzer.analyze on every input               *)

\* most records of one (position group, injury type) cell in an analyzer input
MaxAnalyzerCell == 6

AnalyzerGroups == <<"secondary", "receivers">>

\* the injury dicts of one position group
GroupInjuryDicts(group, soft, other) ==
    Rep([position_group |-> group, injury_type |-> "soft_tissue", season |-> "2024"], soft)
    \o Rep([position_group |-> group, injury_type |-> "structural", season |-> "2025"],
           other)

AnalyzerInputs ==
    {GroupInjuryDicts(AnalyzerGroups[1], c[1], c[2])
     \o GroupInjuryDicts(AnalyzerGroups[2], c[3], c[4]) :
        c \in [1..4 -> 0..MaxAnalyzerCell]}

AnalyzeInit ==
    /\ DashInit
    /\ TextIdle
    /\ LensIdle
    /\ calc_args \in [injuries : AnalyzerInputs, seasons : {<<>>, <<"2024", "2025">>}]
    /\ calc_result = NoneValue
    /\ analyzer_result = NoneValue
    /\ self_weights = weights
    /\ self_patterns = <<>>

\* mutant of patterns_after_analyze: the detected patterns are stored on the
\* analyzer
patterns_after_analyze_Stored(own, detected) == own \o detected

\* self.patterns after analyze: the detected patterns are bound to a local
\* name and returned, self.patterns is not assigned
patterns_after_analyze(own, detected) == own

Analyze ==
    /\ analyzer_result' = analyze(calc_args.seasons, calc_args.injuries)
    /\ self_patterns' = patterns_after_analyze(self_patterns, analyzer_result'.patterns)
    /\ UNCHANGED <<calc_args, calc_result, self_weights, dashVars, lensVars, textVars>>

AnalyzeNext == Analyze

SpecAnalyze == AnalyzeInit /\ [][AnalyzeNext]_vars

\* C3: analyze lists among its systemic_flags a soft-tissue pattern (is_systemic
\* true) for every position group whose soft_tissue records number at least 3 and
\* are more than half of that group's records.
C3_SystemicPatternForEveryCluster ==
    analyzer_result.kind = "analysis" =>
        LET inj == calc_args.injuries
            flagged == analyzer_result.systemic_flags
        IN \A g \in Range(MapField(inj, "position_group")) :
            LET total == CountWhere(inj, LAMBDA i : i.position_group = g)
                soft == CountWhere(inj, LAMBDA i : i.position_group = g
                                                  /\ i.injury_type = "soft_tissue")
            IN (soft >= 3 /\ 2 * soft > total) =>
                   \E k \in DOMAIN flagged :
                       /\ flagged[k].is_systemic
                       /\ flagged[k].injury_type = "soft_tissue"
                       /\ flagged[k].affected_positions = <<g>>


-----------------------------------------------------------------------------
(* The dashboards.  A Python dict is a list of entries [key, value] in     *)
(* insertion order; assigning to a key that is present replaces its value  *)
(* in place.                                                               *)

DictKeys(d) == {d[k].key : k \in DOMAIN d}

DictGet(d, key) == d[CHOOSE k \in DOMAIN d : d[k].key = key].value

DictValues(d) == [k \in DOMAIN d |-> d[k].value]

\* d[key] = value
DictSet(d, key, value) ==
    IF key \in DictKeys(d)
    THEN [k \in DOMAIN d |-> IF d[k].key = key THEN [key |-> key, value |-> value]
                             ELSE d[k]]
    ELSE Append(d, [key |-> key, value |-> value])

RECURSIVE StoreAll(_, _)
\* mutant of StoreFlags: the mapping is rebuilt from the latest flags alone
StoreFlags_Rebuild(d, flags) == StoreAll(<<>>, flags)

\* for flag in flags: dashboard.flags[flag.id] = flag
StoreAll(d, flags) ==
    IF flags = <<>> THEN d
    ELSE StoreAll(DictSet(d, Head(flags).id, Head(flags)), Tail(flags))

\* mutant of StoreFlags: a flag whose id the mapping already holds is not stored
StoreFlags_KeepExisting(d, flags) ==
    StoreAll(d, SelectSeq(flags, LAMBDA flag : flag.id \notin DictKeys(d)))

StoreFlags(d, flags) == StoreAll(d, flags)

\* list.index(x)
IndexOf(seq, x) == CHOOSE i \in DOMAIN seq : seq[i] = x /\ \A j \in 1..(i - 1) : seq[j] # x

\* mutant of SeverityAtLeast: strictly above the minimum
SeverityAtLeast_Strict(order, severity, min_severity) ==
    IndexOf(order, severity) > IndexOf(order, min_severity)

\* severity_order.index(f.severity) >= min_idx
SeverityAtLeast(order, severity, min_severity) ==
    IndexOf(order, severity) >= IndexOf(order, min_severity)

\* mutant of org_create_empty_snapshot: missing data read as zero coherence
org_create_empty_snapshot_Zero(t) ==
    LET empty_reading(dim) == DimensionReading(dim, 0, 0, "Insufficient data", "stable")
    IN [kind |-> "snapshot",
        timestamp |-> t,
        seasons_analyzed |-> {},
        psi_load_coherence |-> empty_reading("psi"),
        rho_history_integration |-> empty_reading("rho"),
        q_strain_accumulation |-> empty_reading("q"),
        f_team_protection |-> empty_reading("f"),
        tau_recovery_depth |-> empty_reading("tau"),
        physical_coherence_score |-> 0,
        confidence_interval |-> <<0, 0>>,
        data_sources |-> <<>>,
        systemic_flags |-> <<>>,
        league_average |-> 500,
        year_over_year_trend |-> "insufficient data"]

\* OrganizationDashboard._create_empty_snapshot
org_create_empty_snapshot(t) ==
    LET empty_reading(dim) == DimensionReading(dim, 500, 0, "Insufficient data", "stable")
    IN [kind |-> "snapshot",
        timestamp |-> t,
        seasons_analyzed |-> {},
        psi_load_coherence |-> empty_reading("psi"),
        rho_history_integration |-> empty_reading("rho"),
        q_strain_accumulation |-> empty_reading("q"),
        f_team_protection |-> empty_reading("f"),
        tau_recovery_depth |-> empty_reading("tau"),
        physical_coherence_score |-> 500,
        confidence_interval |-> <<0, Unit>>,
        data_sources |-> <<>>,
        systemic_flags |-> <<>>,
        league_average |-> 500,
        year_over_year_trend |-> "insufficient data"]

\* mutant of org_get_snapshot: the first snapshot instead of the last
org_get_snapshot_First(snapshots, t) ==
    IF snapshots = <<>> THEN org_create_empty_snapshot(t) ELSE snapshots[1]

\* OrganizationDashboard.get_snapshot
org_get_snapshot(snapshots, t) ==
    IF snapshots = <<>> THEN org_create_empty_snapshot(t) ELSE snapshots[Len(snapshots)]

\* OrganizationDashboard.get_systemic_flags
get_systemic_flags(flags, min_severity) ==
    SelectSeq(DictValues(flags),
              LAMBDA f : SeverityAtLeast(severity_order, f.severity, min_severity))

\* team_coherence FlagSeverity, in the order UnitDashboard.get_flags_by_severity ranks it
unit_severity_order == <<"info", "watch", "attention", "critical">>

UnitReading(dim, value, confidence, sample_size, sources) ==
    [dimension |-> dim, value |-> value, confidence |-> confidence,
     sample_size |-> sample_size, sources |-> sources]

\* UnitDashboard._create_empty_snapshot
unit_create_empty_snapshot(t) ==
    [kind |-> "snapshot",
     timestamp |-> t,
     psi |-> UnitReading("psi", 500, 0, 0, <<>>),
     rho |-> UnitReading("rho", 500, 0, 0, <<>>),
     q |-> UnitReading("q", 500, 0, 0, <<>>),
     f |-> UnitReading("f", 500, 0, 0, <<>>),
     tau |-> UnitReading("tau", 500, 0, 0, <<>>),
     overall_coherence |-> 500,
     confidence_interval |-> <<0, Unit>>,
     data_sources |-> <<>>,
     flags |-> <<>>,
     lens_deviation |-> 500,
     lens_invariant_signals |-> <<>>]

\* UnitDashboard.get_snapshot
unit_get_snapshot(snapshots, t) ==
    IF snapshots = <<>> THEN unit_create_empty_snapshot(t) ELSE snapshots[Len(snapshots)]

\* UnitDashboard.get_flags_by_severity
get_flags_by_severity(flags, min_severity) ==
    SelectSeq(DictValues(flags),
              LAMBDA f : SeverityAtLeast(unit_severity_order, f.severity, min_severity))

\* TeamCoherenceAssessment: data_sources default, _analyze_patterns, _create_snapshot
unit_data_sources == <<"social_media", "cisd", "supervisor_evals">>

_analyze_patterns == [psi |-> 700, rho |-> 650, q |-> 550, f |-> 600, tau |-> 500]

_create_snapshot(patterns, flags, t) ==
    LET make_reading(dim) == UnitReading(dim, patterns[dim], 800, 10, unit_data_sources)
    IN [kind |-> "snapshot",
        timestamp |-> t,
        psi |-> make_reading("psi"),
        rho |-> make_reading("rho"),
        q |-> make_reading("q"),
        f |-> make_reading("f"),
        tau |-> make_reading("tau"),
        overall_coherence |->
            (patterns.psi + patterns.rho + patterns.q + patterns.f + patterns.tau) \div 5,
        confidence_interval |-> <<600, 800>>,
        data_sources |-> [k \in DOMAIN unit_data_sources |->
                             [key |-> unit_data_sources[k], value |-> 10]],
        flags |-> flags,
        lens_deviation |-> 100,
        lens_invariant_signals |-> <<>>]

\* a team_coherence Flag as demo.py builds them: both timestamps are the time of
\* its construction
Flag(id, dimension, value, threshold, severity, lens_invariant, t) ==
    [id |-> id, dimension |-> dimension, value |-> value, threshold |-> threshold,
     severity |-> severity, lens_invariant |-> lens_invariant,
     first_detected |-> t, last_updated |-> t]

(***************************************************************************)
(* The data a run() works on.  _load_injury_data, _load_training_data,     *)
(* _load_recovery_data and _generate_flags are placeholders of the data    *)
(* sources and of the flag generator ("In production, these would be       *)
(* loaded from actual data sources"); they return empty lists as they      *)
(* stand.  What they deliver is an input of run(): the empty lists of the  *)
(* placeholders, and record lists such as demo_lions.py and demo.py feed   *)
(* through the same steps.                                                 *)
(***************************************************************************)
LoadedData ==
    {[injuries |-> <<>>, training |-> <<>>, recovery |-> <<>>],
     [injuries |-> GroupInjuries("wr", 3, 0),
      training |-> <<TrainingLoad(60, 750), TrainingLoad(85, 820)>>,
      recovery |-> <<RecoveryMetric("p2", 60, 90)>>],
     [injuries |-> GroupInjuries("wr", 3, 3),
      training |-> <<TrainingLoad(75, 850)>>,
      recovery |-> <<RecoveryMetric("p1", 70, 60)>>],
     [injuries |-> GroupInjuries("wr", 3, 0) \o GroupInjuries("WR", 3, 1),
      training |-> <<>>,
      recovery |-> <<>>]}

GeneratedFlags(t) ==
    {<<>>,
     <<Flag("F-001", "f", 230, 400, "info", FALSE, t)>>,
     <<Flag("F-001", "f", 230, 400, "watch", FALSE, t)>>,
     <<Flag("F-001", "f", 230, 400, "attention", FALSE, t)>>,
     <<Flag("F-001", "f", 230, 400, "critical", TRUE, t)>>,
     <<Flag("F-002", "q", 720, 650, "attention", FALSE, t)>>,
     <<Flag("F-001", "f", 230, 400, "critical", TRUE, t),
       Flag("F-002", "q", 720, 650, "info", FALSE, t)>>}

\* AthleticCoherenceAssessment.run
Run ==
    /\ now < MaxTime
    /\ \E data \in LoadedData :
        LET snapshot == calculate(data.injuries, data.training, data.recovery, now)
        IN /\ org_snapshots' = Append(org_snapshots, snapshot)
           /\ org_data' = [injury_records |-> data.injuries,
                           training_data |-> data.training,
                           recovery_data |-> data.recovery]
           /\ org_flags' = StoreFlags(org_flags, snapshot.systemic_flags)
           /\ ret' = [op |-> "run", value |-> snapshot]
    /\ now' = now + 1
    /\ UNCHANGED <<unit_snapshots, unit_flags, calcVars, lensVars, textVars>>

\* TeamCoherenceAssessment.run
TeamRun ==
    /\ now < MaxTime
    /\ \E flags \in GeneratedFlags(now) :
        LET snapshot == _create_snapshot(_analyze_patterns, flags, now)
        IN /\ unit_snapshots' = Append(unit_snapshots, snapshot)
           /\ unit_flags' = StoreFlags(unit_flags, flags)
           /\ ret' = [op |-> "team_run", value |-> snapshot]
    /\ now' = now + 1
    /\ UNCHANGED <<org_snapshots, org_flags, org_data, calcVars, lensVars, textVars>>

\* OrganizationDashboard.get_snapshot()
GetSnapshot ==
    /\ ret' = [op |-> "get_snapshot", value |-> org_get_snapshot(org_snapshots, now)]
    /\ UNCHANGED <<now, org_snapshots, org_flags, org_data, unit_snapshots, unit_flags,
                   calcVars, lensVars, textVars>>

\* UnitDashboard.get_snapshot()
UnitGetSnapshot ==
    /\ ret' = [op |-> "unit_get_snapshot",
               value |-> unit_get_snapshot(unit_snapshots, now)]
    /\ UNCHANGED <<now, org_snapshots, org_flags, org_data, unit_snapshots, unit_flags,
                   calcVars, lensVars, textVars>>

\* OrganizationDashboard.get_systemic_flags(min_severity)
GetSystemicFlags ==
    /\ \E min_severity \in Range(severity_order) :
        ret' = [op |-> "get_systemic_flags", min_severity |-> min_severity,
                value |-> get_systemic_flags(org_flags, min_severity)]
    /\ UNCHANGED <<now, org_snapshots, org_flags, org_data, unit_snapshots, unit_flags,
                   calcVars, lensVars, textVars>>

\* UnitDashboard.get_flags_by_severity(min_severity)
GetFlagsBySeverity ==
    /\ \E min_severity \in Range(unit_severity_order) :
        ret' = [op |-> "get_flags_by_severity", min_severity |-> min_severity,
                value |-> get_flags_by_severity(unit_flags, min_severity)]
    /\ UNCHANGED <<now, org_snapshots, org_flags, org_data, unit_snapshots, unit_flags,
                   calcVars, lensVars, textVars>>

Init == DashInit /\ CalcIdle /\ LensIdle /\ TextIdle

Next ==
    \/ Run
    \/ TeamRun
    \/ GetSnapshot
    \/ UnitGetSnapshot
    \/ GetSystemicFlags
    \/ GetFlagsBySeverity

Spec == Init /\ [][Next]_vars

-----------------------------------------------------------------------------
(* Properties of the dashboards                                            *)

\* the four-level order, written out level by level
Rank(severity) ==
    CASE severity = "info" -> 0
      [] severity = "watch" -> 1
      [] severity \in {"elevated", "attention"} -> 2
      [] severity = "critical" -> 3

FlagsAtOrAbove(flags, min_severity) ==
    SelectSeq(DictValues(flags), LAMBDA f : Rank(f.severity) >= Rank(min_severity))

FlagIds(flags) == {flags[k].id : k \in DOMAIN flags}

\* C4: get_systemic_flags(min) and get_flags_by_severity(min) return exactly the
\* stored flags whose severity ranks at or above min in INFO < WATCH < ELEVATED /
\* ATTENTION < CRITICAL, and leave the flag mapping as it was.
C4_FilterBySeverityOrdinal ==
    [][/\ ret'.op = "get_systemic_flags" =>
            /\ ret'.value = FlagsAtOrAbove(org_flags, ret'.min_severity)
            /\ org_flags' = org_flags
            /\ unit_flags' = unit_flags
       /\ ret'.op = "get_flags_by_severity" =>
            /\ ret'.value = FlagsAtOrAbove(unit_flags, ret'.min_severity)
            /\ org_flags' = org_flags
            /\ unit_flags' = unit_flags]_vars

\* the default minimum WATCH was asked of a mapping holding an INFO flag and a
\* higher one, and exactly the INFO flag is left out
C4_Witness ==
    /\ ret.op = "get_flags_by_severity"
    /\ ret.min_severity = "watch"
    /\ \E k \in DOMAIN unit_flags : unit_flags[k].value.severity = "info"
    /\ ret.value # <<>>
    /\ FlagIds(ret.value) =
           {unit_flags[k].key : k \in {j \in DOMAIN unit_flags :
                                          unit_flags[j].value.severity # "info"}}

\* C5: a flag id once present in a dashboard's flag mapping stays present; no
\* step removes an entry.
C5_FlagIdsNeverRemoved ==
    [][/\ DictKeys(org_flags) \subseteq DictKeys(org_flags')
       /\ DictKeys(unit_flags) \subseteq DictKeys(unit_flags')]_vars

\* the latest run no longer detected a condition whose flag is still stored
C5_Witness ==
    /\ Len(org_snapshots) >= 2
    /\ \E id \in DictKeys(org_flags) :
           id \notin FlagIds(org_snapshots[Len(org_snapshots)].systemic_flags)

\* C6: when a run detects a flag whose id is already stored, the entry keeps its
\* place and its first_detected, and its last_updated becomes the time of this
\* detection.
C6_FirstDetectedKept ==
    [][ret'.op = "run" =>
          \A k \in DOMAIN org_flags :
              org_flags[k].key \in FlagIds(ret'.value.systemic_flags) =>
                  /\ org_flags'[k].key = org_flags[k].key
                  /\ org_flags'[k].value.first_detected =
                         org_flags[k].value.first_detected
                  /\ org_flags'[k].value.last_updated = now]_vars

\* C7: a run appends exactly one snapshot and leaves the earlier ones as they
\* were; no other step touches the sequence; get_snapshot() of a non-empty
\* sequence returns its last element.
C7_SnapshotsAppendOnly ==
    [][/\ ret'.op = "run" =>
            /\ org_snapshots' = Append(org_snapshots, ret'.value)
            /\ unit_snapshots' = unit_snapshots
       /\ ret'.op = "team_run" =>
            /\ unit_snapshots' = Append(unit_snapshots, ret'.value)
            /\ org_snapshots' = org_snapshots
       /\ ret'.op \notin {"run", "team_run"} =>
            /\ org_snapshots' = org_snapshots
            /\ unit_snapshots' = unit_snapshots
       /\ (ret'.op = "get_snapshot" /\ org_snapshots # <<>>) =>
            ret'.value = org_snapshots[Len(org_snapshots)]
       /\ (ret'.op = "unit_get_snapshot" /\ unit_snapshots # <<>>) =>
            ret'.value = unit_snapshots[Len(unit_snapshots)]]_vars

\* after two runs get_snapshot() returned the second snapshot, not the first
C7_Witness ==
    /\ ret.op = "get_snapshot"
    /\ Len(org_snapshots) >= 2
    /\ ret.value = org_snapshots[Len(org_snapshots)]
    /\ ret.value # org_snapshots[1]

-----------------------------------------------------------------------------
(* team_coherence/lenses: CulturalLens, LensLibrary                        *)
(* Pattern values, weights, baselines, km and ki are in thousandths.       *)

\* LensParameters() with the dataclass defaults
LensParameters ==
    [psi_weight |-> 1000, rho_weight |-> 1000, q_weight |-> 1000,
     f_weight |-> 1000, tau_weight |-> 1000,
     q_baseline |-> 500, f_baseline |-> 500, psi_tolerance |-> 300,
     verbal_expression |-> 500, direct_communication |-> 500,
     collective_orientation |-> 500,
     km |-> 300, ki |-> 2000]

CulturalLens(name, params, description) ==
    [name |-> name, params |-> params, description |-> description]

\* f"{q:.2f}": q in hundredths, rounded half to even
Fmt2(x) ==
    LET d == x \div 10
        r == x % 10
    IN IF r > 5 \/ (r = 5 /\ d % 2 = 1) THEN d + 1 ELSE d

\* CulturalLens._optimize_q:  q_raw / (km + q_raw + q_raw ** 2 / ki)
_optimize_q(params, q_raw) ==
    IF q_raw <= 0 THEN 0
    ELSE (q_raw * Unit) \div (params.km + q_raw + (q_raw * q_raw) \div params.ki)

\* mutant of WeightedCoherence: the weighted sum over the number of dimensions
WeightedCoherence_FixedDivisor(params, psi, rho, q, f, tau) ==
    (psi * params.psi_weight + rho * params.rho_weight
     + _optimize_q(params, q) * params.q_weight + f * params.f_weight
     + tau * params.tau_weight) \div (5 * Unit)

\* CulturalLens.interpret, "Calculate weighted coherence"
WeightedCoherence(params, psi, rho, q, f, tau) ==
    LET q_opt == _optimize_q(params, q)
        weighted_sum == psi * params.psi_weight + rho * params.rho_weight
                        + q_opt * params.q_weight + f * params.f_weight
                        + tau * params.tau_weight
        total_weight == params.psi_weight + params.rho_weight + params.q_weight
                        + params.f_weight + params.tau_weight
    IN weighted_sum \div total_weight

\* CulturalLens.interpret
interpret(lens, psi, rho, q, f, tau) ==
    LET params == lens.params
        coherence == WeightedCoherence(params, psi, rho, q, f, tau)
        q_diff == q - params.q_baseline
        q_case ==
            IF Abs(q_diff) > 200
            THEN IF q_diff > 0 /\ params.verbal_expression < 400 THEN "high_reserved"
                 ELSE IF q_diff < 0 /\ params.verbal_expression > 600 THEN "low_expressive"
                 ELSE IF q_diff > 0 THEN "elevated"
                 ELSE "none"
            ELSE "none"
        f_case ==
            IF f < 400
            THEN IF params.collective_orientation > 600 THEN "low_collective"
                 ELSE IF params.collective_orientation < 400 THEN "low_individual"
                 ELSE "none"
            ELSE IF f > 700 THEN "strong" ELSE "none"
        psi_case ==
            IF psi < 500
            THEN IF params.psi_tolerance > 400 THEN "tolerated" ELSE "low"
            ELSE IF psi > 800 THEN "strong" ELSE "none"
        tau_case ==
            IF tau < 400 THEN "present" ELSE IF tau > 700 THEN "strong" ELSE "none"
        notes ==
            (IF q_case = "high_reserved"
             THEN << <<"High q in action-oriented culture may indicate significant distress despite reserved expression style", Fmt2(q)>> >>
             ELSE IF q_case = "low_expressive"
             THEN << <<"Low q in verbally expressive culture may indicate suppression rather than calm", Fmt2(q)>> >>
             ELSE IF q_case = "elevated"
             THEN << <<"q-activation elevated - within cultural range", Fmt2(q)>> >>
             ELSE <<>>)
            \o (IF f_case = "low_collective"
                THEN << <<"This lens expects higher social engagement - low f may signal isolation">> >>
                ELSE IF f_case = "low_individual"
                THEN << <<"Low f is within normal range for individual-oriented lens">> >>
                ELSE <<>>)
            \o (IF psi_case = "tolerated"
                THEN << <<"Narrative inconsistency within acceptable range for this lens">> >>
                ELSE <<>>)
            \o (IF tau_case = "present"
                THEN << <<"Present-focused temporal orientation - may be crisis mode">> >>
                ELSE <<>>)
        concerns ==
            (IF q_case = "high_reserved"
             THEN <<"Elevated activation in typically reserved communicator">>
             ELSE IF q_case = "low_expressive"
             THEN <<"Unusual suppression in typically expressive communicator">>
             ELSE <<>>)
            \o (IF f_case = "low_collective"
                THEN <<"Low social expression in collective-oriented individual">>
                ELSE <<>>)
            \o (IF psi_case = "low"
                THEN <<"Low consistency in consistency-valuing culture">>
                ELSE <<>>)
            \o (IF tau_case = "present" THEN <<"Limited temporal integration">> ELSE <<>>)
        strengths ==
            (IF f_case = "strong" THEN <<"Strong social connection patterns">> ELSE <<>>)
            \o (IF psi_case = "strong" THEN <<"Strong narrative consistency">> ELSE <<>>)
            \o (IF tau_case = "strong" THEN <<"Good integration of past experience">>
                ELSE <<>>)
        fit_score ==
            Unit - ((Abs(q - params.q_baseline) * 3
                     + Abs(f - 500 - ((params.collective_orientation - 500) * 2) \div 5) * 3)
                    \div 10)
        confidence == Max(500, Min(Unit, fit_score))
    IN [lens_name |-> lens.name,
        coherence |-> coherence,
        confidence |-> confidence,
        notes |-> notes,
        concerns |-> concerns,
        strengths |-> strengths]

\* LensLibrary._init_default_lenses: the seven built-in lenses
combat_veteran ==
    CulturalLens("combat_veteran",
        [psi_weight |-> 1200,
         rho_weight |-> 1000,
         q_weight |-> 800,
         f_weight |-> 1300,
         tau_weight |-> 1000,
         q_baseline |-> 350,
         f_baseline |-> 700,
         psi_tolerance |-> 200,
         verbal_expression |-> 300,
         direct_communication |-> 800,
         collective_orientation |-> 800,
         km |-> 250,
         ki |-> 1500],
        "Calibration for those with combat experience")

first_generation ==
    CulturalLens("first_generation",
        [psi_weight |-> 900,
         rho_weight |-> 1200,
         q_weight |-> 1100,
         f_weight |-> 1000,
         tau_weight |-> 1100,
         q_baseline |-> 550,
         f_baseline |-> 600,
         psi_tolerance |-> 400,
         verbal_expression |-> 600,
         direct_communication |-> 400,
         collective_orientation |-> 700,
         km |-> 300,
         ki |-> 2000],
        "Calibration for first-generation Americans/immigrants")

\* mutant of neurodivergent: the profile carries the combat_veteran parameters
neurodivergent_AsCombatVeteran ==
    CulturalLens("neurodivergent", combat_veteran.params, "")

neurodivergent ==
    CulturalLens("neurodivergent",
        [psi_weight |-> 1300,
         rho_weight |-> 1000,
         q_weight |-> 700,
         f_weight |-> 800,
         tau_weight |-> 1000,
         q_baseline |-> 400,
         f_baseline |-> 400,
         psi_tolerance |-> 100,
         verbal_expression |-> 500,
         direct_communication |-> 900,
         collective_orientation |-> 400,
         km |-> 350,
         ki |-> 2500],
        "Calibration for neurodivergent communication styles")

rural_traditional ==
    CulturalLens("rural_traditional",
        [psi_weight |-> 1000,
         rho_weight |-> 1200,
         q_weight |-> 700,
         f_weight |-> 1000,
         tau_weight |-> 1100,
         q_baseline |-> 350,
         f_baseline |-> 500,
         psi_tolerance |-> 300,
         verbal_expression |-> 300,
         direct_communication |-> 600,
         collective_orientation |-> 600,
         km |-> 300,
         ki |-> 2000],
        "Calibration for rural/traditional backgrounds")

urban_contemporary ==
    CulturalLens("urban_contemporary",
        [psi_weight |-> 900,
         rho_weight |-> 900,
         q_weight |-> 1200,
         f_weight |-> 1100,
         tau_weight |-> 900,
         q_baseline |-> 550,
         f_baseline |-> 600,
         psi_tolerance |-> 400,
         verbal_expression |-> 800,
         direct_communication |-> 500,
         collective_orientation |-> 500,
         km |-> 300,
         ki |-> 2000],
        "Calibration for urban/contemporary expression")

religious_framework ==
    CulturalLens("religious_framework",
        [psi_weight |-> 1100,
         rho_weight |-> 1300,
         q_weight |-> 1000,
         f_weight |-> 1200,
         tau_weight |-> 1200,
         q_baseline |-> 500,
         f_baseline |-> 700,
         psi_tolerance |-> 300,
         verbal_expression |-> 600,
         direct_communication |-> 500,
         collective_orientation |-> 800,
         km |-> 300,
         ki |-> 2000],
        "Calibration for faith-based meaning-making")

female_service ==
    CulturalLens("female_service",
        [psi_weight |-> 1000,
         rho_weight |-> 1000,
         q_weight |-> 1000,
         f_weight |-> 1100,
         tau_weight |-> 1000,
         q_baseline |-> 500,
         f_baseline |-> 500,
         psi_tolerance |-> 300,
         verbal_expression |-> 600,
         direct_communication |-> 700,
         collective_orientation |-> 600,
         km |-> 300,
         ki |-> 2000],
        "Calibration accounting for female experience in military")

\* LensLibrary(): self.lenses after _init_default_lenses, in insertion order
LensLibrary ==
    LET builtin == <<combat_veteran, first_generation, neurodivergent, rural_traditional,
                     urban_contemporary, religious_framework, female_service>>
    IN [k \in DOMAIN builtin |-> [key |-> builtin[k].name, value |-> builtin[k]]]

\* LensLibrary.get_lens: self.lenses.get(name)
get_lens(lib, name) ==
    IF name \in DictKeys(lib) THEN DictGet(lib, name) ELSE NoneValue

\* LensLibrary.list_lenses
list_lenses(lib) == [k \in DOMAIN lib |-> lib[k].key]

\* LensLibrary.interpret_all
interpret_all(lib, psi, rho, q, f, tau) ==
    [k \in DOMAIN lib |->
        [key |-> lib[k].key, value |-> interpret(lib[k].value, psi, rho, q, f, tau)]]

-----------------------------------------------------------------------------
(* team_coherence/lenses: LensDeviationCalculator                          *)
(* A standard deviation is kept exactly, as its square: the fraction       *)
(* num / den of the sample variance, in thousandths squared.               *)

\* mutant of stdev: the population variance, over n * n
stdev_Population(xs) ==
    [num |-> VarianceNum(xs), den |-> Len(xs) * Len(xs)]

\* mutant of stdev: squares taken about zero instead of about the mean
stdev_Uncentered(xs) ==
    [num |-> Len(xs) * SumSeq([i \in DOMAIN xs |-> xs[i] * xs[i]]),
     den |-> Len(xs) * (Len(xs) - 1)]

\* statistics.stdev(coherences), squared
stdev(xs) ==
    [num |-> VarianceNum(xs), den |-> Len(xs) * (Len(xs) - 1)]

\* invariance_threshold = 0.1
invariance_threshold == 100

\* mutant of BelowThreshold: the variance, not its root, is held against the
\* threshold
BelowThreshold_Variance(deviation, threshold) ==
    deviation.num < threshold * Unit * deviation.den

\* deviation < invariance_threshold
BelowThreshold(deviation, threshold) ==
    deviation.num < threshold * threshold * deviation.den

\* min(xs), max(xs) of a non-empty list
MinOf(xs) == CHOOSE x \in Range(xs) : \A y \in Range(xs) : x <= y

MaxOf(xs) == CHOOSE x \in Range(xs) : \A y \in Range(xs) : x >= y

Occurrences(s, x) == Cardinality({i \in DOMAIN s : s[i] = x})

\* LensDeviationCalculator.calculate_deviation; lenses is [kind |-> "none"] for
\* the default None, [kind |-> "list", items |-> names] otherwise
calculate_deviation(lib, psi, rho, q, f, tau, lenses_arg) ==
    LET lens_list == IF lenses_arg.kind = "none" THEN list_lenses(lib)
                     ELSE lenses_arg.items
        found == SelectSeq(lens_list, LAMBDA name : name \in DictKeys(lib))
        interp(name) == interpret(get_lens(lib, name), psi, rho, q, f, tau)
        names == FirstOccurrences(found, {})
        interpretations == [k \in DOMAIN names |->
                               [key |-> names[k], value |-> interp(names[k])]]
        coherences == [k \in DOMAIN found |-> interp(found[k]).coherence]
        deviation == IF Len(coherences) < 2 THEN [num |-> 0, den |-> 1]
                     ELSE stdev(coherences)
        is_invariant == BelowThreshold(deviation, invariance_threshold)
        all_concerns == Flatten([k \in DOMAIN interpretations |->
                                    interpretations[k].value.concerns])
        concern_keys == FirstOccurrences(all_concerns, {})
        universal_concerns ==
            SelectSeq(concern_keys,
                      LAMBDA c : 2 * Occurrences(all_concerns, c) > Len(lens_list))
    IN IF coherences = <<>>
       THEN \* min(coherences) of an empty list
            [kind |-> "error", error |-> "ValueError"]
       ELSE [kind |-> "ok",
             deviation |-> deviation,
             analysis |->
                [deviation |-> deviation,
                 is_lens_invariant |-> is_invariant,
                 interpretations |-> interpretations,
                 coherence_range |->
                     <<MinOf(coherences), MaxOf(coherences)>>,
                 coherence_mean |-> SumSeq(coherences) \div Len(coherences),
                 universal_concerns |-> universal_concerns,
                 translation_needed |-> ~is_invariant]]

\* LensDeviationCalculator.get_translation_notes; a note is its fixed text
\* followed by the values formatted into it
get_translation_notes(a) ==
    LET interps == a.interpretations
        with_notes == SelectSeq(interps, LAMBDA e : e.value.notes # <<>>)
    IN (IF a.is_lens_invariant
        THEN << <<"LENS-INVARIANT SIGNAL: All cultural lenses agree on this pattern. This is not a translation artifact - the signal is real.">> >>
        ELSE << <<"Coherence varies by lens. Consider individual's cultural background when interpreting.",
                  Fmt2(a.coherence_range[1]), Fmt2(a.coherence_range[2])>> >>)
       \o (IF a.universal_concerns # <<>>
           THEN << <<"Universal concerns (flagged by multiple lenses): ",
                     a.universal_concerns>> >>
           ELSE <<>>)
       \o [k \in DOMAIN with_notes |-> <<with_notes[k].key, with_notes[k].value.notes[1]>>]

-----------------------------------------------------------------------------
(* SpecLens: calculate_deviation over lens lists built name by name        *)

PatternTuple(psi, rho, q, f, tau) ==
    [psi |-> psi, rho |-> rho, q |-> q, f |-> f, tau |-> tau]

Patterns ==
    {PatternTuple(750, 600, 350, 450, 500),
     PatternTuple(0, 1000, 500, 500, 500),
     PatternTuple(300, 900, 800, 300, 200),
     PatternTuple(900, 800, 0, 750, 900)}

\* a library whose lenses dict was filled with the given lenses
LibraryOf(lens_seq) ==
    [k \in DOMAIN lens_seq |-> [key |-> lens_seq[k].name, value |-> lens_seq[k]]]

\* the same parameters under three names
UniformLibrary(params) ==
    LibraryOf(<<CulturalLens("lens_a", params, ""),
                CulturalLens("lens_b", params, ""),
                CulturalLens("lens_c", params, "")>>)

\* three lenses that weigh psi or rho more heavily
SpreadLibrary ==
    LibraryOf(<<CulturalLens("lens_a", [LensParameters EXCEPT !.psi_weight = 3000], ""),
                CulturalLens("lens_b", [LensParameters EXCEPT !.rho_weight = 3000], ""),
                CulturalLens("lens_c", [LensParameters EXCEPT !.rho_weight = 3500], "")>>)

\* three lenses with the default weights, km and ki that differ in the baselines,
\* the tolerance and the expression modifiers
AdvisoryLibrary ==
    LibraryOf(<<CulturalLens("lens_a", LensParameters, ""),
                CulturalLens("lens_b",
                    [LensParameters EXCEPT !.q_baseline = 350, !.f_baseline = 700,
                                           !.psi_tolerance = 500,
                                           !.verbal_expression = 300,
                                           !.direct_communication = 800,
                                           !.collective_orientation = 800], ""),
                CulturalLens("lens_c",
                    [LensParameters EXCEPT !.q_baseline = 550, !.psi_tolerance = 100,
                                           !.verbal_expression = 800,
                                           !.collective_orientation = 300], "")>>)

Libraries ==
    {LensLibrary,
     UniformLibrary(LensParameters),
     UniformLibrary(combat_veteran.params),
     SpreadLibrary,
     AdvisoryLibrary}

\* the names a caller passes: names of the library and one it does not hold
LensChoices(lib) ==
    {lib[k].key : k \in {j \in DOMAIN lib : j <= 3}} \cup {"unknown"}

LensInit ==
    /\ DashInit
    /\ TextIdle
    /\ CalcIdle
    /\ pattern \in Patterns
    /\ library \in Libraries
    /\ lenses \in {[kind |-> "none"], [kind |-> "list", items |-> <<>>]}
    /\ prev_analysis = NoneValue
    /\ analysis = NoneValue

\* the caller adds a name to the lenses argument
ChooseLens ==
    /\ \E name \in LensChoices(library) :
        /\ Len(IF lenses.kind = "none" THEN <<>> ELSE lenses.items) < MaxLensList
        /\ lenses' = [kind |-> "list",
                      items |-> Append(IF lenses.kind = "none" THEN <<>>
                                       ELSE lenses.items, name)]
    /\ UNCHANGED <<pattern, library, prev_analysis, analysis, dashVars, calcVars, textVars>>

\* LensDeviationCalculator(library).calculate_deviation(*pattern, lenses)
CalculateDeviation ==
    /\ LET r == calculate_deviation(library, pattern.psi, pattern.rho, pattern.q,
                                    pattern.f, pattern.tau, lenses)
       IN analysis' = [kind |-> r.kind, lenses |-> lenses, ret |-> r]
    /\ prev_analysis' = analysis
    /\ UNCHANGED <<pattern, library, lenses, dashVars, calcVars, textVars>>

\* get_translation_notes(analysis) on the analysis of the latest call
GetTranslationNotes ==
    /\ analysis.kind = "ok"
    /\ ret' = [op |-> "get_translation_notes",
               arg |-> analysis.ret.analysis,
               value |-> get_translation_notes(analysis.ret.analysis)]
    /\ UNCHANGED <<now, org_snapshots, org_flags, org_data, unit_snapshots, unit_flags,
                   calcVars, lensVars, textVars>>

LensNext ==
    \/ ChooseLens
    \/ CalculateDeviation
    \/ GetTranslationNotes

SpecLens == LensInit /\ [][LensNext]_vars

-----------------------------------------------------------------------------
(* Properties of calculate_deviation                                       *)

\* the coherences a call computed, one per name of its list
Coherences(call) ==
    [k \in DOMAIN call.lenses.items |->
        DictGet(call.ret.analysis.interpretations, call.lenses.items[k]).coherence]

\* the names of the list are distinct profiles of the library
DistinctProfiles(call) ==
    /\ call.kind = "ok"
    /\ call.lenses.kind = "list"
    /\ \A k \in DOMAIN call.lenses.items : call.lenses.items[k] \in DictKeys(library)
    /\ \A j, k \in DOMAIN call.lenses.items :
           call.lenses.items[j] = call.lenses.items[k] => j = k

\* the latest call ran over the profiles of the call before it and one more
ExtendedByOne ==
    /\ prev_analysis.kind = "ok"
    /\ DistinctProfiles(prev_analysis)
    /\ DistinctProfiles(analysis)
    /\ Len(prev_analysis.lenses.items) >= 2
    /\ Len(analysis.lenses.items) = Len(prev_analysis.lenses.items) + 1
    /\ SubSeq(analysis.lenses.items, 1, Len(prev_analysis.lenses.items))
           = prev_analysis.lenses.items

AddedCoherence == Coherences(analysis)[Len(analysis.lenses.items)]

AddedOutsideRange ==
    \/ AddedCoherence < prev_analysis.ret.analysis.coherence_range[1]
    \/ AddedCoherence > prev_analysis.ret.analysis.coherence_range[2]

\* deviation a is not smaller than deviation b
NotSmaller(a, b) == a.num * b.den >= b.num * a.den

\* C8 as stated: extending a set of at least 2 profiles by one whose coherence
\* lies outside the set's [min, max] range never gives a smaller deviation.
C8_OutsideRangeNeverDecreases ==
    (ExtendedByOne /\ AddedOutsideRange) =>
        NotSmaller(analysis.ret.deviation, prev_analysis.ret.deviation)

\* C8 amended: extending a set of n >= 2 profiles with mean m and sample variance
\* s2 by one of coherence c gives a deviation that is not smaller when
\* n * (c - m)^2 >= (n + 1) * s2 and not larger otherwise; lying outside the
\* [min, max] range does not decide it.  In whole numbers, with S the sum of the
\* n coherences and V = n * (sum of squares) - S * S, the condition is
\* (n - 1) * (n * c - S)^2 >= (n + 1) * V.
C8_DecreasesUnlessFarFromMean ==
    ExtendedByOne =>
        LET cs == Coherences(prev_analysis)
            n == Len(cs)
            S == SumSeq(cs)
            V == n * SumSeq([i \in DOMAIN cs |-> cs[i] * cs[i]]) - S * S
            c == AddedCoherence
        IN IF (n - 1) * (n * c - S) * (n * c - S) >= (n + 1) * V
           THEN NotSmaller(analysis.ret.deviation, prev_analysis.ret.deviation)
           ELSE NotSmaller(prev_analysis.ret.deviation, analysis.ret.deviation)

\* a profile outside the range of two others was added and the deviation fell
C8_Witness ==
    /\ ExtendedByOne
    /\ AddedOutsideRange
    /\ ~NotSmaller(analysis.ret.deviation, prev_analysis.ret.deviation)

\* how many names of the lenses argument the library holds
FoundCount(call) ==
    IF call.lenses.kind = "none" THEN Len(library)
    ELSE Cardinality({k \in DOMAIN call.lenses.items :
                         call.lenses.items[k] \in DictKeys(library)})

\* C9: a call whose lens list yields fewer than two interpretations returns
\* deviation 0.0 and an analysis with is_lens_invariant true, and raises nothing.
C9_FewerThanTwoReturnsZero ==
    (analysis.kind # "none" /\ FoundCount(analysis) < 2) =>
        /\ analysis.kind = "ok"
        /\ analysis.ret.deviation.num = 0
        /\ analysis.ret.analysis.is_lens_invariant

UniformProfiles(lib) ==
    /\ Len(lib) >= 2
    /\ \A j, k \in DOMAIN lib :
           /\ lib[j].value.params = lib[k].value.params
           /\ (lib[j].key = lib[k].key => j = k)

\* C10: over a library of two or more profiles with identical parameters under
\* different names, a call that interprets two or more of them returns deviation
\* exactly 0 and is_lens_invariant true.
C10_IdenticalProfilesZeroDeviation ==
    (UniformProfiles(library) /\ analysis.kind # "none" /\ FoundCount(analysis) >= 2) =>
        /\ analysis.kind = "ok"
        /\ analysis.ret.deviation.num = 0
        /\ analysis.ret.analysis.is_lens_invariant

\* the whole of a three-name library of identical profiles was interpreted
C10_Witness ==
    /\ UniformProfiles(library)
    /\ analysis.kind = "ok"
    /\ analysis.lenses.kind = "none"
    /\ Len(analysis.ret.analysis.interpretations) = 3
    /\ analysis.ret.analysis.coherence_range[1] > 0
    /\ analysis.ret.deviation.num = 0
    /\ analysis.ret.analysis.is_lens_invariant

-----------------------------------------------------------------------------
(* Properties of the invariance classification and the translation notes   *)

InvariantNoteText ==
    "LENS-INVARIANT SIGNAL: All cultural lenses agree on this pattern. This is not a translation artifact - the signal is real."

VariesNoteText ==
    "Coherence varies by lens. Consider individual's cultural background when interpreting."

NoteTexts(notes) == {notes[k][1] : k \in DOMAIN notes}

\* C11: is_lens_invariant is true exactly when the deviation is below 0.1 (its
\* square below 0.01), translation_needed is its negation, and the translation
\* notes start with the LENS-INVARIANT note exactly when is_lens_invariant is
\* true, otherwise with the 'Coherence varies by lens' guidance, never holding
\* both.
C11_InvarianceThresholdAndNotes ==
    /\ analysis.kind = "ok" =>
          LET a == analysis.ret.analysis
          IN /\ a.is_lens_invariant <=>
                    a.deviation.num < 100 * 100 * a.deviation.den
             /\ a.translation_needed = ~a.is_lens_invariant
             /\ a.deviation = analysis.ret.deviation
    /\ ret.op = "get_translation_notes" =>
          /\ ret.value # <<>>
          /\ ret.value[1][1] =
                 (IF ret.arg.is_lens_invariant THEN InvariantNoteText ELSE VariesNoteText)
          /\ ~({InvariantNoteText, VariesNoteText} \subseteq NoteTexts(ret.value))

\* lenses that disagree by 0.1 or more were read: the analysis asks for
\* translation and the notes open with the guidance
C11_Witness ==
    /\ analysis.kind = "ok"
    /\ ~analysis.ret.analysis.is_lens_invariant
    /\ analysis.ret.analysis.translation_needed
    /\ analysis.ret.deviation.num >= 100 * 100 * analysis.ret.deviation.den
    /\ ret.op = "get_translation_notes"
    /\ ret.arg = analysis.ret.analysis
    /\ ret.value[1][1] = VariesNoteText

\* the profiles of a call that emitted concern c
Emitters(interps, c) ==
    {k \in DOMAIN interps : c \in Range(interps[k].value.concerns)}

AllConcerns(interps) ==
    UNION {Range(interps[k].value.concerns) : k \in DOMAIN interps}

\* C12: universal_concerns holds exactly the concerns emitted by strictly more
\* than half of the profiles interpreted in the call, whatever lens list the
\* caller passed.
C12_UniversalConcernsMajority ==
    analysis.kind = "ok" =>
        LET interps == analysis.ret.analysis.interpretations
        IN Range(analysis.ret.analysis.universal_concerns) =
               {c \in AllConcerns(interps) :
                   2 * Cardinality(Emitters(interps, c)) > Len(interps)}

-----------------------------------------------------------------------------
(* Properties of CulturalLens.interpret                                    *)

\* the parameters the coherence formula names: five weights, km and ki
ScalarParams(params) ==
    <<params.psi_weight, params.rho_weight, params.q_weight, params.f_weight,
      params.tau_weight, params.km, params.ki>>

\* (w_psi*psi + w_rho*rho + w_q*q_opt + w_f*f + w_tau*tau) / (sum of the weights)
\* with q_opt = q / (km + q + q*q/ki), in thousandths
WeightedMean(w, p) ==
    LET q_opt == IF p.q <= 0 THEN 0
                 ELSE (p.q * 1000) \div (w[6] + p.q + (p.q * p.q) \div w[7])
    IN (w[1] * p.psi + w[2] * p.rho + w[3] * q_opt + w[4] * p.f + w[5] * p.tau)
           \div (w[1] + w[2] + w[3] + w[4] + w[5])

\* C13: the coherence of every interpretation is the weighted mean of the tuple
\* under the lens's five weights with q optimised by km and ki, and two lenses
\* that agree on those seven parameters return the same coherence whatever
\* their baselines, tolerance and expression modifiers are.
C13_CoherenceIsWeightedMean ==
    analysis.kind = "ok" =>
        LET interps == analysis.ret.analysis.interpretations
            params(k) == DictGet(library, interps[k].key).params
        IN /\ \A k \in DOMAIN interps :
                  interps[k].value.coherence = WeightedMean(ScalarParams(params(k)), pattern)
           /\ \A j, k \in DOMAIN interps :
                  ScalarParams(params(j)) = ScalarParams(params(k)) =>
                      interps[j].value.coherence = interps[k].value.coherence

\* two lenses that differ only in the advisory parameters read a tuple with
\* different concerns and the same coherence
C13_Witness ==
    /\ analysis.kind = "ok"
    /\ \E j, k \in DOMAIN analysis.ret.analysis.interpretations :
          LET interps == analysis.ret.analysis.interpretations
              pj == DictGet(library, interps[j].key).params
              pk == DictGet(library, interps[k].key).params
          IN /\ pj # pk
             /\ ScalarParams(pj) = ScalarParams(pk)
             /\ interps[j].value.concerns # interps[k].value.concerns
             /\ interps[j].value.confidence # interps[k].value.confidence
             /\ interps[j].value.coherence = interps[k].value.coherence
             /\ interps[j].value.coherence > 0

-----------------------------------------------------------------------------
(* Properties of the aggregate score and of the five readings              *)

Readings(snapshot) ==
    [psi |-> snapshot.psi_load_coherence,
     rho |-> snapshot.rho_history_integration,
     q |-> snapshot.q_strain_accumulation,
     f |-> snapshot.f_team_protection,
     tau |-> snapshot.tau_recovery_depth]

Dimensions == {"psi", "rho", "q", "f", "tau"}

InUnitInterval(x) == 0 <= x /\ x <= 1000

\* the strain of the inputs, high when intensity and soft-tissue share are high:
\* (mean intensity + soft-tissue share of the injuries) / 2, in thousandths
StrainOf(args) ==
    LET n == Len(args.training)
        soft == Cardinality({k \in DOMAIN args.injuries :
                                args.injuries[k].injury_type = "soft_tissue"})
        share == IF args.injuries = <<>> THEN 0
                 ELSE (soft * 1000) \div Len(args.injuries)
    IN (SumSeq([k \in DOMAIN args.training |-> args.training[k].intensity]) \div n
        + share) \div 2

\* C14: the score of a snapshot is 0.20*psi + 0.15*rho + 0.25*(1 - q) + 0.15*f +
\* 0.25*tau of the readings stored in it, the stored q is the strain itself, not
\* its inverse, and the score lies in [0,1] whenever the five readings do.
C14_ScoreIsWeightedSum ==
    calc_result.kind = "snapshot" =>
        LET r == Readings(calc_result)
        IN /\ calc_result.physical_coherence_score =
                  (200 * r.psi.value + 150 * r.rho.value + 250 * (1000 - r.q.value)
                   + 150 * r.f.value + 250 * r.tau.value) \div 1000
           /\ calc_args.training # <<>> => r.q.value = StrainOf(calc_args)
           /\ (\A d \in Dimensions : InUnitInterval(r[d].value)) =>
                  InUnitInterval(calc_result.physical_coherence_score)

\* a snapshot of high strain: q is stored above 0.7 and lowers the score
C14_Witness ==
    /\ calc_result.kind = "snapshot"
    /\ \A d \in Dimensions : InUnitInterval(Readings(calc_result)[d].value)
    /\ calc_result.q_strain_accumulation.value > 700
    /\ calc_result.q_strain_accumulation.value = StrainOf(calc_args)
    /\ calc_result.physical_coherence_score < 600
    /\ calc_result.psi_load_coherence.value > 500

\* the notes of the readings that start with 'Insufficient'
InsufficientNotes ==
    {"Insufficient training data", "Insufficient injury history",
     "Insufficient data for strain analysis", "Insufficient recovery data"}

\* C15: calculate([], [], []), which is what run() computes from its placeholder
\* loaders, returns a snapshot whose five readings have value 0.5, confidence 0.0
\* and an 'Insufficient ...' note, whose flag list is empty and whose score is 0.5.
C15_EmptyInputSentinel ==
    (/\ ret.op = "run"
     /\ org_data.injury_records = <<>>
     /\ org_data.training_data = <<>>
     /\ org_data.recovery_data = <<>>) =>
        /\ ret.value.kind = "snapshot"
        /\ \A d \in Dimensions :
               /\ Readings(ret.value)[d].value = 500
               /\ Readings(ret.value)[d].confidence = 0
               /\ Readings(ret.value)[d].athletic_interpretation \in InsufficientNotes
        /\ ret.value.systemic_flags = <<>>
        /\ ret.value.physical_coherence_score = 500

\* a run over the placeholder loaders' empty lists returned and stored the
\* sentinel snapshot, after an earlier run that had data
C15_Witness ==
    /\ ret.op = "run"
    /\ org_data.injury_records = <<>>
    /\ org_data.training_data = <<>>
    /\ org_data.recovery_data = <<>>
    /\ Len(org_snapshots) = 2
    /\ org_snapshots[2] = ret.value
    /\ org_snapshots[1].physical_coherence_score # 500
    /\ ret.value.physical_coherence_score = 500
    /\ ret.value.systemic_flags = <<>>

\* the sentinel of the organization dashboard
OrgSentinel(snapshot) ==
    /\ \A d \in Dimensions : /\ Readings(snapshot)[d].value = 500
                             /\ Readings(snapshot)[d].confidence = 0
    /\ snapshot.physical_coherence_score = 500
    /\ snapshot.confidence_interval = <<0, 1000>>
    /\ snapshot.systemic_flags = <<>>

\* the sentinel of the unit dashboard
UnitSentinel(snapshot) ==
    /\ \A d \in Dimensions : /\ snapshot[d].value = 500
                             /\ snapshot[d].confidence = 0
    /\ snapshot.overall_coherence = 500
    /\ snapshot.confidence_interval = <<0, 1000>>
    /\ snapshot.flags = <<>>

\* C16: get_snapshot() on a dashboard without snapshots returns the sentinel
\* (readings 0.5 with confidence 0.0, score 0.5, interval (0.0, 1.0), no flags)
\* and leaves the snapshot sequence empty and the flag mappings as they were.
C16_EmptyDashboardSentinel ==
    [][/\ (ret'.op = "get_snapshot" /\ org_snapshots = <<>>) =>
            /\ OrgSentinel(ret'.value)
            /\ org_snapshots' = <<>>
            /\ org_flags' = org_flags
            /\ unit_flags' = unit_flags
       /\ (ret'.op = "unit_get_snapshot" /\ unit_snapshots = <<>>) =>
            /\ UnitSentinel(ret'.value)
            /\ unit_snapshots' = <<>>
            /\ org_flags' = org_flags
            /\ unit_flags' = unit_flags]_vars

\* the organization dashboard is still empty after the unit has run twice, and
\* get_snapshot() returned a sentinel made at that time
C16_Witness ==
    /\ ret.op = "get_snapshot"
    /\ org_snapshots = <<>>
    /\ Len(unit_snapshots) = 2
    /\ unit_flags # <<>>
    /\ OrgSentinel(ret.value)
    /\ ret.value.timestamp = now

-----------------------------------------------------------------------------
(* team_coherence/analyzers: BaseAnalyzer._extract_pattern_regex           *)
(* A text is the list of its words, an exclamation mark being a word of    *)
(* its own.  A pattern r'\b(a|b c)\b' is the list of its alternatives,     *)
(* each the list of the words it spans.                                    *)

\* str.lower() on a word
lower(word) ==
    CASE word = "We" -> "we"
      [] word = "STRESSED" -> "stressed"
      [] word = "All" -> "all"
      [] word = "No" -> "no"
      [] word = "The" -> "the"
      [] word = "Leadership" -> "leadership"
      [] OTHER -> word

isolation_patterns ==
    << << <<"alone">>, <<"lonely">>, <<"isolated">>, <<"nobody">>, <<"no", "one">> >>,
       << <<"by", "myself">>, <<"on", "my", "own">> >> >>

connection_patterns ==
    << << <<"we">>, <<"us">>, <<"our">>, <<"together">>, <<"team">> >>,
       << <<"support">>, <<"helped">>, <<"buddy">>, <<"brother">>, <<"sister">> >> >>

activation_patterns ==
    << << <<"stressed">>, <<"angry">>, <<"frustrated">>, <<"scared">>, <<"anxious">> >>,
       << <<"worried">>, <<"tense">>, <<"overwhelmed">>, <<"exhausted">> >> >>

wisdom_patterns ==
    << << <<"learned">>, <<"realized">>, <<"experience">>, <<"wisdom">> >>,
       << <<"years">>, <<"before">>, <<"remember">>, <<"history">> >> >>

past_patterns ==
    << << <<"was">>, <<"were">>, <<"used", "to">>, <<"before">>, <<"ago">> >> >>

present_patterns ==
    << << <<"now">>, <<"today">>, <<"right", "now">>, <<"currently">> >> >>

IsPrefix(p, s) == Len(p) <= Len(s) /\ SubSeq(s, 1, Len(p)) = p

RECURSIVE findall(_, _)
\* len(re.findall(pattern, words)): matches are taken left to right, at each
\* place the first alternative that fits, and do not overlap
findall(alternatives, words) ==
    IF words = <<>> THEN 0
    ELSE LET fits == {k \in DOMAIN alternatives : IsPrefix(alternatives[k], words)}
         IN IF fits = {} THEN findall(alternatives, Tail(words))
            ELSE LET first == CHOOSE k \in fits : \A j \in fits : k <= j
                 IN 1 + findall(alternatives,
                                SubSeq(words, Len(alternatives[first]) + 1, Len(words)))

\* sum(len(re.findall(p, text_lower)) for p in patterns)
CountPatterns(patterns, words) ==
    SumSeq([k \in DOMAIN patterns |-> findall(patterns[k], words)])

\* mutant of q_activation: the sum is not capped
q_activation_Unclamped(activation, exclamations) ==
    300 + activation * 100 + exclamations * 50

\* q = min(0.3 + activation * 0.1 + exclamations * 0.05, 1.0)
q_activation(activation, exclamations) ==
    Min(300 + activation * 100 + exclamations * 50, Unit)

\* rho = min(0.3 + wisdom * 0.1, 1.0)
rho_wisdom(wisdom) == Min(300 + wisdom * 100, Unit)

\* tau from the counts of past and present words
tau_depth(past, present) ==
    IF past > present THEN Min(500 + past * 50, Unit)
    ELSE IF present > past THEN Max(500 - present * 50, 100)
    ELSE 500

PatternResult(psi, rho, q, f, tau, confidence, source_count) ==
    [psi |-> psi, rho |-> rho, q |-> q, f |-> f, tau |-> tau,
     confidence |-> confidence, source_count |-> source_count, notes |-> <<>>]

\* BaseAnalyzer._extract_pattern_regex
_extract_pattern_regex(txt) ==
    LET text_lower == [k \in DOMAIN txt |-> lower(txt[k])]
        isolation == CountPatterns(isolation_patterns, text_lower)
        connection == CountPatterns(connection_patterns, text_lower)
        total == isolation + connection
        f == IF total > 0 THEN (connection * Unit) \div total ELSE 500
        activation == CountPatterns(activation_patterns, text_lower)
        exclamations == Occurrences(txt, "!")
        q == q_activation(activation, exclamations)
        psi == 700
        wisdom == CountPatterns(wisdom_patterns, text_lower)
        rho == rho_wisdom(wisdom)
        past == CountPatterns(past_patterns, text_lower)
        present == CountPatterns(present_patterns, text_lower)
        tau == tau_depth(past, present)
    IN PatternResult(psi, rho, q, f, tau, 600, 1)

\* DebriefAnalyzer.analyze_transcript
analyze_transcript(transcript) == _extract_pattern_regex(transcript)

-----------------------------------------------------------------------------
(* CISDAnalyzer                                                            *)

PROCESSING_INDICATORS ==
    << << <<"realized">>, <<"understood">>, <<"felt">>, <<"struggled">> >>,
       << <<"hard">>, <<"difficult">>, <<"challenging">>, <<"painful">> >>,
       << <<"support">>, <<"helped">>, <<"talked">>, <<"shared">> >>,
       << <<"processing">>, <<"working", "through">>, <<"dealing", "with">> >> >>

PERFORMANCE_INDICATORS ==
    << << <<"fine">>, <<"okay">>, <<"good">>, <<"normal">>, <<"usual">> >>,
       << <<"handled">>, <<"managed">>, <<"no", "problem">> >>,
       << <<"moved", "on">>, <<"over", "it">>, <<"past", "it">> >>,
       << <<"don't", "need">>, <<"unnecessary">> >> >>

ENVIRONMENTAL_CONCERNS ==
    << [pattern |-> {"career", "promotion", "evaluation"},
        concern |-> "Career concerns may affect disclosure"],
       [pattern |-> {"command", "leadership", "supervisor"},
        concern |-> "Command presence may affect openness"],
       [pattern |-> {"mandatory", "required", "ordered"},
        concern |-> "Mandatory nature may reduce authenticity"],
       [pattern |-> {"quiet", "silent", "uncomfortable"},
        concern |-> "Unusual silence may indicate unsafe environment"] >>

\* the words of the texts that hold a keyword inside them: these patterns
\* have no word boundary, so "command" is found in "commander"
Within(keyword, word) ==
    \/ keyword = word
    \/ <<keyword, word>> \in {<<"command", "commander">>, <<"quiet", "quietly">>}

\* re.search(pattern, words) is not None
search(keywords, words) ==
    \E k \in DOMAIN words : \E keyword \in keywords : Within(keyword, words[k])

RECURSIVE findall_matches(_, _)
\* re.findall(pattern, words): the matched texts, left to right
findall_matches(alternatives, words) ==
    IF words = <<>> THEN <<>>
    ELSE LET fits == {k \in DOMAIN alternatives : IsPrefix(alternatives[k], words)}
         IN IF fits = {} THEN findall_matches(alternatives, Tail(words))
            ELSE LET first == CHOOSE k \in fits : \A j \in fits : k <= j
                 IN <<alternatives[first]>>
                    \o findall_matches(alternatives,
                                       SubSeq(words, Len(alternatives[first]) + 1,
                                              Len(words)))

\* the matches of every pattern of the list, one pattern after the other
AllMatches(patterns, words) ==
    Flatten([k \in DOMAIN patterns |-> findall_matches(patterns[k], words)])

\* CISDAnalyzer.analyze
cisd_analyze(cisd_document) ==
    LET doc_lower == [k \in DOMAIN cisd_document |-> lower(cisd_document[k])]
        processing_matches == AllMatches(PROCESSING_INDICATORS, doc_lower)
        performance_matches == AllMatches(PERFORMANCE_INDICATORS, doc_lower)
        total == Len(processing_matches) + Len(performance_matches)
        found == SelectSeq(ENVIRONMENTAL_CONCERNS,
                           LAMBDA c : search(c.pattern, doc_lower))
    IN [processing_ratio |-> IF total > 0
                             THEN (Len(processing_matches) * Unit) \div total
                             ELSE 500,
        performance_ratio |-> IF total > 0
                              THEN (Len(performance_matches) * Unit) \div total
                              ELSE 500,
        processing_indicators |-> Range(processing_matches),
        performance_indicators |-> Range(performance_matches),
        environmental_concerns |-> MapField(found, "concern"),
        facilitator_notes |-> NoneValue,
        pattern |-> _extract_pattern_regex(cisd_document)]

\* demo.py's report of a team that masks, as far as its second sentence
MaskingReport ==
    <<"All", "participants", "reported", "they", "were", "fine", "and",
      "handling", "the", "situation", "normally", ".",
      "No", "one", "expressed", "need", "for", "additional", "support", ".">>

CISDDocuments ==
    {MaskingReport,
     MaskingReport \o <<"The", "session", "was", "brief", "as", "most", "felt",
                        "they", "had", "already", "moved", "on", ".",
                        "Leadership", "was", "present", "throughout", ".">>,
     <<"The", "commander", "said", "everyone", "handled", "it", "and",
       "moved", "on", ".">>}

-----------------------------------------------------------------------------
(* SpecText: the text extractor on texts of repeated words                 *)

Vocabulary ==
    {"alone", "We", "STRESSED", "!", "learned", "before", "was", "now", "right", "the"}

\* a word repeated up to MaxRepeat times, followed by up to two of another
TextInputs ==
    {Rep(w1, n1) \o Rep(w2, n2) :
        w1 \in Vocabulary, n1 \in 0..MaxRepeat, w2 \in Vocabulary, n2 \in 0..2}

TextInit ==
    /\ DashInit
    /\ CalcIdle
    /\ LensIdle
    /\ text \in TextInputs \cup CISDDocuments
    /\ extracted = NoneValue
    /\ cisd_result = NoneValue

\* DebriefAnalyzer().analyze_transcript(text)
AnalyzeTranscript ==
    /\ extracted' = analyze_transcript(text)
    /\ UNCHANGED <<text, cisd_result, dashVars, calcVars, lensVars>>

\* CISDAnalyzer().analyze(text)
CISDAnalyze ==
    /\ cisd_result' = cisd_analyze(text)
    /\ UNCHANGED <<text, extracted, dashVars, calcVars, lensVars>>

TextNext == AnalyzeTranscript \/ CISDAnalyze

SpecText == TextInit /\ [][TextNext]_vars

-----------------------------------------------------------------------------
(* Properties of the text extractor                                        *)

Extracted == "psi" \in DOMAIN extracted

\* C17: on the empty string the text extractor returns the sentinel: value 0.5
\* for the five dimensions and confidence 0.0.
C17_EmptyTextSentinel ==
    (Extracted /\ text = <<>>) =>
        /\ \A d \in Dimensions : extracted[d] = 500
        /\ extracted.confidence = 0

\* q values across the unit interval, every 0.05
QGrid == {50 * k : k \in 0..20}

BuiltinParams == {LensLibrary[k].value.params : k \in DOMAIN LensLibrary}

\* C19: whatever the keyword and exclamation-mark counts of the text, psi, rho,
\* q, f and tau lie in [0,1], q and rho in [0.3, 1.0], tau in [0.1, 1.0]; and
\* _optimize_q maps a q of [0,1] into [0,1] under every built-in lens.
C19_ExtractedWithinUnitInterval ==
    Extracted =>
        /\ \A d \in Dimensions : InUnitInterval(extracted[d])
        /\ 300 <= extracted.q /\ 300 <= extracted.rho
        /\ 100 <= extracted.tau
        /\ \A params \in BuiltinParams : \A q \in QGrid \cup {extracted.q} :
               InUnitInterval(_optimize_q(params, q))

\* a text of eleven exclamation marks and two activation words: the sum 1.05 is
\* capped at 1.0, and the optimised q stays inside the interval
C19_Witness ==
    /\ Extracted
    /\ Occurrences(text, "!") = 11
    /\ Occurrences(text, "STRESSED") = 2
    /\ extracted.q = 1000
    /\ \A params \in BuiltinParams :
           /\ 0 < _optimize_q(params, extracted.q)
           /\ _optimize_q(params, extracted.q) < 1000

-----------------------------------------------------------------------------
(* Properties of the athletic readings                                     *)

\* C18: every reading value of a snapshot lies in [0,1], whatever the records,
\* also when intensity, load_score or readiness lie beyond their scales.
C18_ReadingValuesWithinUnitInterval ==
    calc_result.kind = "snapshot" =>
        \A d \in Dimensions : InUnitInterval(Readings(calc_result)[d].value)

\* the records a dimension's reading is computed from
SamplesOf(args) ==
    [psi |-> args.training, rho |-> args.injuries, q |-> args.training,
     f |-> args.recovery, tau |-> args.recovery]

\* the five readings of the scorer on the given records
ReadingsOn(injuries, training, recovery) ==
    [psi |-> _calculate_load_coherence(training),
     rho |-> _calculate_history_integration(injuries),
     q |-> _calculate_strain_accumulation(training, injuries),
     f |-> _calculate_team_protection(recovery),
     tau |-> _calculate_recovery_depth(recovery)]

FirstOnly(s) == SubSeq(s, 1, Min(1, Len(s)))

\* C20: each reading's confidence is min(n / N0, 1.0) of its n records for a
\* fixed N0 of the dimension: 0.0 for no record, within [0,1], and n times the
\* confidence of a single record until that reaches 1.0.
C20_ConfidenceSaturatesInSampleCount ==
    calc_result.kind = "snapshot" =>
        LET one == ReadingsOn(FirstOnly(calc_args.injuries),
                              FirstOnly(calc_args.training),
                              FirstOnly(calc_args.recovery))
        IN \A d \in Dimensions :
              LET n == Len(SamplesOf(calc_args)[d])
                  confidence == Readings(calc_result)[d].confidence
              IN /\ InUnitInterval(confidence)
                 /\ n = 0 => confidence = 0
                 /\ n >= 1 => /\ one[d].confidence > 0
                              /\ confidence = Min(n * one[d].confidence, 1000)

-----------------------------------------------------------------------------
(* Repeated calls                                                          *)

\* what two results of calculate are compared on: the five readings, the
\* aggregate score, and the id and severity of every flag, in order
Comparable(snapshot) ==
    [readings |-> Readings(snapshot),
     score |-> snapshot.physical_coherence_score,
     flags |-> [i \in 1..Len(snapshot.systemic_flags) |->
                  <<snapshot.systemic_flags[i].id,
                    snapshot.systemic_flags[i].severity>>]]

LastSnapshot == org_snapshots[Len(org_snapshots)]

-----------------------------------------------------------------------------
(* Properties of the CISD analyzer                                         *)

Analyzed == "pattern" \in DOMAIN cisd_result

\* C22: on the report "All participants reported they were fine and handling
\* the situation normally. No one expressed need for additional support."
\* CISDAnalyzer.analyze returns a performance_ratio strictly greater than the
\* processing_ratio and an empty environmental_concerns list.
C22_MaskingReportIsPerformance ==
    (Analyzed /\ text = MaskingReport) =>
        /\ cisd_result.performance_ratio > cisd_result.processing_ratio
        /\ cisd_result.environmental_concerns = <<>>

-----------------------------------------------------------------------------
(* Year-over-year repetition                                               *)

RepeatPatterns ==
    SelectSeq(analyzer_result.patterns, LAMBDA p : p.pattern_id = <<"REPEAT-MULTI">>)

\* the season each record of the input is counted under
SeasonOf(k) == Get(calc_args.injuries[k], "season", "unknown")

InputSeasons == {SeasonOf(k) : k \in DOMAIN calc_args.injuries}

RecordsOfSeason(season) ==
    Cardinality({k \in DOMAIN calc_args.injuries : SeasonOf(k) = season})

\* C23: _detect_patterns emits the pattern REPEAT-MULTI exactly when the
\* records span at least two distinct seasons and every season has more than
\* 10 records; the pattern is systemic, affects ["all"] and counts every record.
C23_RepeatMultiIffEverySeasonHigh ==
    analyzer_result.kind = "analysis" =>
        /\ Len(RepeatPatterns) <= 1
        /\ Len(RepeatPatterns) = 1 <=>
              /\ Cardinality(InputSeasons) >= 2
              /\ \A season \in InputSeasons : RecordsOfSeason(season) > 10
        /\ \A k \in DOMAIN RepeatPatterns :
              /\ RepeatPatterns[k].is_systemic
              /\ RepeatPatterns[k].affected_positions = <<"all">>
              /\ RepeatPatterns[k].occurrence_count = Len(calc_args.injuries)

\* two seasons of 11 records each raise the pattern
C23_Witness ==
    /\ analyzer_result.kind = "analysis"
    /\ Len(RepeatPatterns) = 1
    /\ InputSeasons = {"2024", "2025"}
    /\ \A season \in InputSeasons : RecordsOfSeason(season) = 11

\* one season of 11 and one of 10 raise nothing
C23_WitnessBelow ==
    /\ analyzer_result.kind = "analysis"
    /\ RepeatPatterns = <<>>
    /\ RecordsOfSeason("2024") = 11
    /\ RecordsOfSeason("2025") = 10

-----------------------------------------------------------------------------
(* SpecLibrary: the read operations on a fresh LensLibrary                 *)

\* mutant of lenses_after_get: a name the dict does not hold is inserted with
\* a default lens, as dict.setdefault would
lenses_after_get_SetDefault(lib, name) ==
    IF name \in DictKeys(lib) THEN lib
    ELSE DictSet(lib, name, CulturalLens(name, LensParameters, ""))

\* self.lenses after self.lenses.get(name): a lookup inserts nothing
lenses_after_get(lib, name) == lib

\* demo.py's complex pattern and a distressed one
LibraryPatterns ==
    {PatternTuple(750, 600, 350, 450, 500),
     PatternTuple(300, 900, 800, 300, 200)}

LibraryInit ==
    /\ DashInit
    /\ TextIdle
    /\ CalcIdle
    /\ pattern \in LibraryPatterns
    /\ library = LensLibrary
    /\ lenses \in {[kind |-> "none"], [kind |-> "list", items |-> <<>>]}
    /\ prev_analysis = NoneValue
    /\ analysis = NoneValue

\* library.get_lens(name)
GetLens ==
    /\ \E name \in LensChoices(library) :
        /\ ret' = [op |-> "get_lens", arg |-> name, value |-> get_lens(library, name)]
        /\ library' = lenses_after_get(library, name)
    /\ UNCHANGED <<now, org_snapshots, org_flags, org_data, unit_snapshots, unit_flags,
                   pattern, lenses, prev_analysis, analysis, calcVars, textVars>>

\* library.list_lenses()
ListLenses ==
    /\ ret' = [op |-> "list_lenses", value |-> list_lenses(library)]
    /\ UNCHANGED <<now, org_snapshots, org_flags, org_data, unit_snapshots, unit_flags,
                   calcVars, lensVars, textVars>>

\* library.get_lens(name).interpret(*pattern) for a name the library holds
Interpret ==
    /\ \E name \in LensChoices(library) \cap DictKeys(library) :
        ret' = [op |-> "interpret", arg |-> name,
                value |-> interpret(DictGet(library, name), pattern.psi, pattern.rho,
                                    pattern.q, pattern.f, pattern.tau)]
    /\ UNCHANGED <<now, org_snapshots, org_flags, org_data, unit_snapshots, unit_flags,
                   calcVars, lensVars, textVars>>

\* library.interpret_all(*pattern)
InterpretAll ==
    /\ ret' = [op |-> "interpret_all",
               value |-> interpret_all(library, pattern.psi, pattern.rho, pattern.q,
                                       pattern.f, pattern.tau)]
    /\ UNCHANGED <<now, org_snapshots, org_flags, org_data, unit_snapshots, unit_flags,
                   calcVars, lensVars, textVars>>

LibraryNext ==
    \/ GetLens
    \/ ListLenses
    \/ Interpret
    \/ InterpretAll
    \/ ChooseLens
    \/ CalculateDeviation
    \/ GetTranslationNotes

SpecLibrary == LibraryInit /\ [][LibraryNext]_vars

BuiltinNames ==
    <<"combat_veteran", "first_generation", "neurodivergent", "rural_traditional",
      "urban_contemporary", "religious_framework", "female_service">>

BuiltinProfiles ==
    <<combat_veteran, first_generation, neurodivergent, rural_traditional,
      urban_contemporary, religious_framework, female_service>>

\* C24: a freshly constructed LensLibrary holds exactly the seven built-in
\* profiles, and no sequence of get_lens, list_lenses, interpret, interpret_all,
\* calculate_deviation and get_translation_notes calls changes the names or
\* the parameters it holds.
C24_LibraryStaysBuiltin ==
    /\ list_lenses(library) = BuiltinNames
    /\ \A k \in DOMAIN BuiltinNames :
          /\ library[k].value.name = BuiltinNames[k]
          /\ library[k].value.params = BuiltinProfiles[k].params

\* a deviation was computed twice and an unknown name was looked up
C24_Witness ==
    /\ C24_LibraryStaysBuiltin
    /\ analysis.kind = "ok"
    /\ prev_analysis.kind = "ok"
    /\ ret.op = "get_lens"
    /\ ret.arg = "unknown"
    /\ ret.value = NoneValue

-----------------------------------------------------------------------------
(* SpecReadOnly: the scorer and the analyzer, each on its own inputs       *)

ReadOnlyInit == CalcInit \/ AnalyzeInit

ReadOnlyNext ==
    \/ ("training" \in DOMAIN calc_args /\ Calculate)
    \/ ("seasons" \in DOMAIN calc_args /\ Analyze)

SpecReadOnly == ReadOnlyInit /\ [][ReadOnlyNext]_vars

\* C25: PhysicalCoherenceScore.calculate and InjuryPatternAnalyzer.analyze
\* treat their input as read-only: a call leaves the caller's lists and
\* records, the scorer's weight vector and the analyzer's own patterns list
\* as they were.
C25_CallsLeaveInputsAndOwnState ==
    [][/\ calc_args' = calc_args
       /\ self_weights' = self_weights
       /\ self_patterns' = self_patterns]_vars

\* analyze returned patterns and stored none of them
C25_Witness ==
    /\ analyzer_result.kind = "analysis"
    /\ analyzer_result.patterns # <<>>
    /\ self_patterns = <<>>
    /\ self_weights = weights

\* calculate returned flags for the records it was given
C25_WitnessCalculate ==
    /\ calc_result.kind = "snapshot"
    /\ calc_result.systemic_flags # <<>>
    /\ calc_args.injuries # <<>>
    /\ self_weights = weights

-----------------------------------------------------------------------------
(* SpecRatios: the scorer, the injury analyzer and the text analyzers,     *)
(* each on its own inputs                                                  *)

RatiosInit == CalcInit \/ AnalyzeInit \/ TextInit

RatiosNext ==
    \/ ("training" \in DOMAIN calc_args /\ Calculate)
    \/ ("seasons" \in DOMAIN calc_args /\ Analyze)
    \/ AnalyzeTranscript
    \/ CISDAnalyze

SpecRatios == RatiosInit /\ [][RatiosNext]_vars

LowerText == [k \in DOMAIN text |-> lower(text[k])]

\* some alternative of some pattern of the list stands somewhere in the words
HasTerm(patterns, words) ==
    \E k \in DOMAIN patterns : \E j \in DOMAIN patterns[k] : \E i \in DOMAIN words :
        IsPrefix(patterns[k][j], SubSeq(words, i, Len(words)))

\* C26: no ratio of the extractors and analyzers divides by zero. A ratio
\* without terms is the neutral 0.5: f of a text without connection or
\* isolation terms, and both CISD ratios of a report without processing or
\* performance indicators. A rate without a denominator is computed with the
\* divisor 1: the position rates for an empty season list are the record
\* counts, and the soft-tissue rate for an empty injury list is 0, so that the
\* strain is half the average intensity.
C26_ZeroDenominatorsGuarded ==
    /\ (/\ Extracted
        /\ ~HasTerm(isolation_patterns, LowerText)
        /\ ~HasTerm(connection_patterns, LowerText))
       => extracted.f = 500
    /\ (/\ Analyzed
        /\ ~HasTerm(PROCESSING_INDICATORS, LowerText)
        /\ ~HasTerm(PERFORMANCE_INDICATORS, LowerText))
       => /\ cisd_result.processing_ratio = 500
          /\ cisd_result.performance_ratio = 500
    /\ (analyzer_result.kind = "analysis" /\ calc_args.seasons = <<>>)
       => \A k \in DOMAIN analyzer_result.position_rates :
             analyzer_result.position_rates[k].value
                = Len(analyzer_result.by_position[k].value) * Unit
    /\ (/\ calc_result.kind = "snapshot"
        /\ calc_args.injuries = <<>>
        /\ calc_args.training # <<>>)
       => calc_result.q_strain_accumulation.value
             = (SumSeq(MapField(calc_args.training, "intensity"))
                   \div Len(calc_args.training)) \div 2

\* records of two position groups analyzed with an empty season list
C26_Witness ==
    /\ analyzer_result.kind = "analysis"
    /\ calc_args.seasons = <<>>
    /\ Len(analyzer_result.position_rates) = 2
    /\ analyzer_result.position_rates[1].value = 3000

\* a text without a term of either kind was read by both text analyzers
C26_WitnessText ==
    /\ Extracted
    /\ Analyzed
    /\ text # <<>>
    /\ extracted.f = 500
    /\ cisd_result.processing_ratio = 500
    /\ ~HasTerm(isolation_patterns, LowerText)
    /\ ~HasTerm(connection_patterns, LowerText)
    /\ ~HasTerm(PROCESSING_INDICATORS, LowerText)
    /\ ~HasTerm(PERFORMANCE_INDICATORS, LowerText)

\* training records scored without any injury record
C26_WitnessStrain ==
    /\ calc_result.kind = "snapshot"
    /\ calc_args.injuries = <<>>
    /\ calc_result.q_strain_accumulation.value = 425

-----------------------------------------------------------------------------
(* The demonstration pattern under two built-in profiles                   *)

DemoPattern == PatternTuple(750, 600, 350, 450, 500)

DemoCall ==
    /\ analysis.kind = "ok"
    /\ pattern = DemoPattern
    /\ analysis.lenses.kind = "list"
    /\ Len(analysis.lenses.items) = 2
    /\ Range(analysis.lenses.items) = {"combat_veteran", "neurodivergent"}

\* C27: for psi=0.75, rho=0.6, q=0.35, f=0.45, tau=0.5 the built-in
\* combat_veteran and neurodivergent profiles each return a coherence inside
\* [0,1], and calculate_deviation on exactly these two profiles returns a
\* deviation strictly greater than 0.
C27_DemoPatternDeviatesAcrossTwoProfiles ==
    DemoCall =>
        /\ \A name \in {"combat_veteran", "neurodivergent"} :
              InUnitInterval(DictGet(analysis.ret.analysis.interpretations, name).coherence)
        /\ analysis.ret.deviation.num > 0

\* the call on the two profiles: coherences 0.565 and 0.575
C27_Witness ==
    /\ DemoCall
    /\ analysis.lenses.items = <<"combat_veteran", "neurodivergent">>
    /\ Coherences(analysis) = <<565, 575>>

-----------------------------------------------------------------------------
(* SpecBoundary: InjuryPatternAnalyzer.analyze on records that lack fields *)

\* the fields _group_by_position and _detect_patterns read from a record
ExpectedFields == {"position_group", "injury_type", "season"}

FullRecord ==
    [position_group |-> "secondary", injury_type |-> "soft_tissue", season |-> "2024"]

\* the dicts that hold some of the expected fields
PartialRecords == {[field \in present |-> FullRecord[field]] : present \in SUBSET ExpectedFields}

\* up to MaxAnalyzerCell copies of one dict followed by up to two of another
BoundaryInputs ==
    {Rep(r1, n1) \o Rep(r2, n2) :
        r1 \in PartialRecords, n1 \in 0..MaxAnalyzerCell, r2 \in PartialRecords, n2 \in 0..2}

BoundaryInit ==
    /\ DashInit
    /\ TextIdle
    /\ LensIdle
    /\ calc_args \in [injuries : BoundaryInputs, seasons : {<<"2024">>}]
    /\ calc_result = NoneValue
    /\ analyzer_result = NoneValue
    /\ self_weights = weights
    /\ self_patterns = <<>>

BoundaryNext == Analyze

SpecBoundary == BoundaryInit /\ [][BoundaryNext]_vars

\* some record of the input lacks an expected field
Malformed ==
    \E k \in DOMAIN calc_args.injuries : ~(ExpectedFields \subseteq DOMAIN calc_args.injuries[k])

\* C28: a record that lacks an expected field (position_group, injury_type or
\* season) is rejected with a MissingFieldError condition at the input
\* boundary: a call on such records returns that condition and never an
\* analysis of them.
C28_MissingFieldRejected ==
    (analyzer_result.kind # "none" /\ Malformed) =>
        analyzer_result.kind = "MissingFieldError"

-----------------------------------------------------------------------------
(* Flag ids of one snapshot                                                *)

\* the ids of a flag list are pairwise distinct
DistinctIds(flag_list) ==
    \A i, j \in DOMAIN flag_list : flag_list[i].id = flag_list[j].id => i = j

\* C29: within the flag list of any snapshot returned by calculate the flag
\* ids are pairwise distinct, also for position groups that differ only in
\* letter case, so that storing the list of the first run() in the dashboard
\* mapping keeps as many entries as the snapshot has flags.
C29_FlagIdsDistinctWithinSnapshot ==
    /\ \A k \in DOMAIN org_snapshots : DistinctIds(org_snapshots[k].systemic_flags)
    /\ Len(org_snapshots) = 1 => Len(org_flags) = Len(org_snapshots[1].systemic_flags)

-----------------------------------------------------------------------------
(* The flag mapping after run()                                            *)

\* every entry is stored under the id of its flag
KeyedById(d) == \A k \in DOMAIN d : d[k].key = d[k].value.id

\* every flag of the list is in the mapping under its id, with its severity
StoredWithSeverity(d, flag_list) ==
    \A i \in DOMAIN flag_list :
        /\ flag_list[i].id \in DictKeys(d)
        /\ DictGet(d, flag_list[i].id).severity = flag_list[i].severity

\* C30: after any sequence of run() calls every entry of a dashboard's flag
\* mapping is stored under its own id, and every flag of the snapshot appended
\* last is in the mapping under its id with the same severity.
C30_MappingKeyedByIdHoldsLatestFlags ==
    /\ KeyedById(org_flags)
    /\ KeyedById(unit_flags)
    /\ org_snapshots # <<>> =>
          StoredWithSeverity(org_flags, org_snapshots[Len(org_snapshots)].systemic_flags)
    /\ unit_snapshots # <<>> =>
          StoredWithSeverity(unit_flags, unit_snapshots[Len(unit_snapshots)].flags)

\* a second team run raised a flag again with another severity, after a run of
\* the athletic assessment stored two flags
C30_Witness ==
    /\ Len(unit_snapshots) = 2
    /\ unit_snapshots[1].flags # <<>>
    /\ unit_snapshots[2].flags # <<>>
    /\ unit_snapshots[1].flags[1].id = unit_snapshots[2].flags[1].id
    /\ unit_snapshots[1].flags[1].severity # unit_snapshots[2].flags[1].severity
    /\ Len(org_flags) = 2
    /\ C30_MappingKeyedByIdHoldsLatestFlags

=============================================================================
